---- MODULE Spec2Model ----
(***************************************************************************)
(* skill-loop: the routing loop (orchestrator.RunWith / resolveNext), the  *)
(* process executor (executor.ExecuteSkill) and the tmux-backed session    *)
(* registry (session.New / Start / Stop / Reconcile).                      *)
(*                                                                         *)
(* Strings are sequences of one-character strings, so that substring       *)
(* search, trimming and number parsing are computed, not assumed.          *)
(***************************************************************************)
EXTENDS Integers, Sequences, FiniteSets, TLC

VARIABLES
    \* harness of the pure function resolveNext
    rnRoutes, rnSummary, rnOut, rnPc,
    \* orchestrator.RunWith
    cfg, maxIterations, prompt, entrypoint, currentSkill, prevSummary, i,
    nextSkill, result, callIdx, callArgs, runPc,
    \* executor.ExecuteSkill and executeSkillOnce
    exArgs, opts, exCmd, attempt, exPc, exRet, procs, doneCh, tickCh, idleFor,
    stdoutBuf, outcomes,
    \* the session registry: what each process holds in memory, the session
    \* directory, and tmux
    mem, dirExists, disk, exitFile, logMod, tmuxInstalled, tmuxFails, diskOk,
    tmuxAlive, script, now, last, quiet, runnerPc,
    \* the run command: its invocations, the user's and the ones the launch
    \* script makes
    invs,
    \* the sessions directory and the ids New has given out
    sessionDirs, newIds, wallClock

resolveVars == <<rnRoutes, rnSummary, rnOut, rnPc>>
runVars == <<cfg, maxIterations, prompt, entrypoint, currentSkill, prevSummary,
             i, nextSkill, result, callIdx, callArgs, runPc>>
execVars == <<exArgs, opts, exCmd, attempt, exPc, exRet, procs, doneCh, tickCh,
              idleFor, stdoutBuf, outcomes>>
sessVars == <<mem, dirExists, disk, exitFile, logMod, tmuxInstalled, tmuxFails,
              diskOk, tmuxAlive, script, now, last, quiet, runnerPc>>
cmdVars == <<invs>>
idVars == <<sessionDirs, newIds, wallClock>>
vars == <<resolveVars, runVars, execVars, sessVars, cmdVars, idVars>>

(***************************************************************************)
(* Bounds of the model.                                                    *)
(***************************************************************************)
\* longest route list given to the resolveNext harness
MaxRoutes == 2
\* longest trigger (Route.When) given to the resolveNext harness
MaxWhenLen == 2
\* longest summary given to the resolveNext harness
MaxSummaryLen == 3
\* most routes in one routing graph given to RunWith (all skills together)
MaxGraphRoutes == 3
\* largest iteration cap given to RunWith (argument or config value)
MaxIter == 3
\* largest ExecutionOptions.MaxRestarts given to ExecuteSkill
MaxRestartsArg == 2
\* largest ExecutionOptions.IdleTimeout given to ExecuteSkill, in seconds
MaxIdleArg == 2
\* most characters a child writes to its standard output in one attempt
MaxOut == 3
\* the last instant of the session registry's clock
MaxTime == 1
\* the most invocations of the run command followed
MaxInvocations == 3
\* the longest agent output given to extractResult
MaxTextLen == 5
\* the most sessions created by New that are followed, and the last second of
\* the clock they read
MaxNew == 3
MaxWall == 2

(***************************************************************************)
(* Strings.                                                                *)
(***************************************************************************)
SeqsUpTo(S, n) == UNION {[1..k -> S] : k \in 0..n}

\* "<DONE>", the terminal marker, and skill names are atoms: they are only
\* ever compared for equality.
DONE == "<DONE>"

\* strings.Index(s, sub): the least offset at which sub occurs in s, or -1
RECURSIVE IndexFrom(_, _, _)
IndexFrom(s, sub, k) ==
    IF k + Len(sub) > Len(s) THEN -1
    ELSE IF SubSeq(s, k + 1, k + Len(sub)) = sub THEN k
    ELSE IndexFrom(s, sub, k + 1)

Index(s, sub) == IndexFrom(s, sub, 0)

\* strings.Contains(s, sub)
Contains(s, sub) == Index(s, sub) >= 0

(***************************************************************************)
(* resolveNext (orchestrator): first match wins, no match is <DONE>.       *)
(***************************************************************************)
\* the loop's test: r.When == "" || strings.Contains(summary, r.When)
RouteMatches(r, s) == r.When = <<>> \/ Contains(s, r.When)

RECURSIVE resolveFrom(_, _, _)
resolveFrom(routes, s, k) ==
    IF k > Len(routes) THEN DONE
    ELSE IF RouteMatches(routes[k], s) THEN routes[k].Skill
    ELSE resolveFrom(routes, s, k + 1)

\* a mutant of resolveNext: the last matching route wins
RECURSIVE resolveLastFrom(_, _, _)
resolveLastFrom(routes, s, k) ==
    IF k < 1 THEN DONE
    ELSE IF RouteMatches(routes[k], s) THEN routes[k].Skill
    ELSE resolveLastFrom(routes, s, k - 1)

resolveNextLastWins(routes, s) == resolveLastFrom(routes, s, Len(routes))

resolveNext(routes, s) == resolveFrom(routes, s, 1)

(***************************************************************************)
(* Harness of resolveNext: the inputs are drawn in Init, Resolve applies   *)
(* the function once.                                                      *)
(***************************************************************************)
Chars == {"k", "K"}
Whens == SeqsUpTo(Chars, MaxWhenLen)
HarnessSummaries == SeqsUpTo(Chars, MaxSummaryLen)
HarnessRoutes == [When : Whens, Skill : {"impl", DONE}]
HarnessRouteLists == SeqsUpTo(HarnessRoutes, MaxRoutes)

ResolveInit ==
    /\ rnRoutes \in HarnessRouteLists
    /\ rnSummary \in HarnessSummaries
    /\ rnOut = "none"
    /\ rnPc = "ready"

ResolveIdle ==
    /\ rnRoutes = <<>>
    /\ rnSummary = <<>>
    /\ rnOut = "none"
    /\ rnPc = "off"

Resolve ==
    /\ rnPc = "ready"
    /\ rnOut' = resolveNext(rnRoutes, rnSummary)
    /\ rnPc' = "returned"
    /\ UNCHANGED <<rnRoutes, rnSummary, runVars, execVars, sessVars, cmdVars, idVars>>

(***************************************************************************)
(* orchestrator.RunWith.  The executor is the SkillExecutor interface: a   *)
(* call returns an error or a result with any summary.                     *)
(***************************************************************************)
DefaultMaxIterations == 100

SkillNames == {"A", "B"}
RunWhens == {<<>>, <<"k">>}
RunSummaries == {<<"x">>, <<"x", "k">>}
RunRoutes == [When : RunWhens, Skill : SkillNames \cup {DONE}]
RunRouteLists == SeqsUpTo(RunRoutes, MaxGraphRoutes)

\* config.Skill: the agent fields and the ordered routes
SkillOf(next) == [Runtime |-> "", Model |-> "", Next |-> next]

\* the skill maps of the routing graphs: skill A alone, or A and B
SkillMaps ==
    {[n \in {"A"} |-> SkillOf(la)] : la \in RunRouteLists}
    \cup
    {[n \in SkillNames |-> SkillOf(IF n = "A" THEN p[1] ELSE p[2])] :
        p \in {q \in RunRouteLists \X RunRouteLists :
                  Len(q[1]) + Len(q[2]) <= MaxGraphRoutes}}

\* config.Config
Configs == [DefaultEntrypoint : {"A"}, MaxIterations : {-1, 0, MaxIter}, Skills : SkillMaps]

NoResult == [Summary |-> <<>>, err |-> "none"]
NoArgs == [name |-> "", runtime |-> "", model |-> "", prevSummary |-> <<>>]

RunInit ==
    /\ cfg \in Configs
    /\ maxIterations \in -1..MaxIter
    /\ prompt \in {<<>>, <<"x">>}
    /\ entrypoint \in {"", "B"}
    /\ currentSkill = ""
    /\ prevSummary = <<>>
    /\ i = 0
    /\ nextSkill = ""
    /\ result = NoResult
    /\ callIdx = 0
    /\ callArgs = NoArgs
    /\ runPc = "start"

RunIdle ==
    /\ cfg = [DefaultEntrypoint |-> "A", MaxIterations |-> 0,
              Skills |-> [n \in {"A"} |-> SkillOf(<<>>)]]
    /\ maxIterations = 0
    /\ prompt = <<>>
    /\ entrypoint = ""
    /\ currentSkill = ""
    /\ prevSummary = <<>>
    /\ i = 0
    /\ nextSkill = ""
    /\ result = NoResult
    /\ callIdx = 0
    /\ callArgs = NoArgs
    /\ runPc = "off"

\* a mutant of the validation: any entrypoint passes
ValidateEntrypointAlwaysNil(c, e) == "nil"

\* Config.ValidateEntrypoint: nil, or the error
ValidateEntrypoint(c, e) ==
    IF e = "" THEN "entrypoint is required"
    ELSE IF e \notin DOMAIN c.Skills THEN "entrypoint not found in skills"
    ELSE "nil"

\* a mutant of the cap: the loop runs one iteration more (i <= maxIterations)
LoopGuardOffByOne(n, max) == n <= max

\* the loop condition, i < maxIterations
LoopGuard(n, max) == n < max

\* a mutant of the cap: the graph's value is taken before the override
EffectiveMaxIterationsConfigFirst(override, configured) ==
    LET max1 == IF configured <= 0 THEN override ELSE configured
    IN IF max1 <= 0 THEN DefaultMaxIterations ELSE max1

\* the cap RunWith settles on: the override, else the graph's value, else the
\* default
EffectiveMaxIterations(override, configured) ==
    LET max1 == IF override <= 0 THEN configured ELSE override
    IN IF max1 <= 0 THEN DefaultMaxIterations ELSE max1

\* RunWith up to the loop: the cap, the entrypoint and its validation
RunStart ==
    /\ runPc = "start"
    /\ LET ep == IF entrypoint = "" THEN cfg.DefaultEntrypoint ELSE entrypoint
       IN /\ maxIterations' = EffectiveMaxIterations(maxIterations, cfg.MaxIterations)
          /\ entrypoint' = ep
          /\ IF ValidateEntrypoint(cfg, ep) # "nil"
             THEN /\ runPc' = "err_entrypoint"
                  /\ UNCHANGED <<currentSkill, prevSummary>>
             ELSE /\ runPc' = "loop"
                  /\ currentSkill' = ep
                  /\ prevSummary' = prompt
    /\ i' = 0
    /\ UNCHANGED <<cfg, prompt, nextSkill, result, callIdx, callArgs, resolveVars, execVars, sessVars, cmdVars, idVars>>

\* the head of one iteration, up to the (blocking) call of the executor
RunCall ==
    /\ runPc = "loop"
    /\ LoopGuard(i, maxIterations)
    /\ IF currentSkill \notin DOMAIN cfg.Skills
       THEN /\ runPc' = "err_skill_not_found"
            /\ UNCHANGED <<callIdx, callArgs>>
       ELSE LET skill == cfg.Skills[currentSkill]
                runtime == IF skill.Runtime = "" THEN "claude" ELSE skill.Runtime
            IN /\ callArgs' = [name |-> currentSkill, runtime |-> runtime,
                               model |-> skill.Model, prevSummary |-> prevSummary]
               /\ callIdx' = callIdx + 1
               /\ runPc' = "executing"
    /\ UNCHANGED <<cfg, maxIterations, prompt, entrypoint, currentSkill,
                   prevSummary, i, nextSkill, result, resolveVars, execVars, sessVars, cmdVars, idVars>>

\* a mutant of the error check: an executor error is not looked at and the
\* step is routed with the empty summary that came with it
ExecFailedIgnored(res) == FALSE

\* err != nil after exec.ExecuteSkill
ExecFailed(res) == res.err # "none"

\* a mutant of the terminal test: the marker is never recognised
IsDoneNever(next) == FALSE

\* nextSkill == "<DONE>"
IsDone(next) == next = DONE

\* a mutant of the lookup of the next skill: any target is taken as known
NextSkillKnownAlways(c, next) == TRUE

\* _, ok := cfg.Skills[nextSkill]
NextSkillKnown(c, next) == next \in DOMAIN c.Skills

\* a mutant of the hand-over: the next step is given the summary the step
\* before it was given
CarriedSummaryStale(res, prev) == prev

\* prevSummary = result.Summary
CarriedSummary(res, prev) == res.Summary

\* the rest of the iteration, from the executor's return
RunReturn ==
    /\ runPc = "executing"
    /\ \E res \in [Summary : RunSummaries, err : {"none"}]
                  \cup {[Summary |-> <<>>, err |-> "exec"]} :
        /\ result' = res
        /\ IF ExecFailed(res)
           THEN /\ runPc' = "err_exec"
                /\ UNCHANGED <<nextSkill, prevSummary, currentSkill, i>>
           ELSE LET next == resolveNext(cfg.Skills[currentSkill].Next, res.Summary)
                IN /\ nextSkill' = next
                   /\ IF IsDone(next)
                      THEN /\ runPc' = "done"
                           /\ UNCHANGED <<prevSummary, currentSkill, i>>
                      ELSE IF ~NextSkillKnown(cfg, next)
                      THEN /\ runPc' = "err_next_not_found"
                           /\ UNCHANGED <<prevSummary, currentSkill, i>>
                      ELSE /\ prevSummary' = CarriedSummary(res, prevSummary)
                           /\ currentSkill' = next
                           /\ i' = i + 1
                           /\ runPc' = "loop"
    /\ UNCHANGED <<cfg, maxIterations, prompt, entrypoint, callIdx, callArgs,
                   resolveVars, execVars, sessVars, cmdVars, idVars>>

\* the loop ran out: return the "max iterations reached" error
RunMaxReached ==
    /\ runPc = "loop"
    /\ ~LoopGuard(i, maxIterations)
    /\ runPc' = "err_max_iterations"
    /\ UNCHANGED <<cfg, maxIterations, prompt, entrypoint, currentSkill,
                   prevSummary, i, nextSkill, result, callIdx, callArgs,
                   resolveVars, execVars, sessVars, cmdVars, idVars>>

RunReturned == runPc \in {"done", "err_entrypoint", "err_skill_not_found", "err_exec",
                          "err_next_not_found", "err_max_iterations"}

(***************************************************************************)
(* executor.ExecuteSkill.  Time is counted in seconds, the period of the   *)
(* supervisor's ticker.  idleFor is time.Since(lastActivity.Get()), the    *)
(* seconds since the child last wrote on stdout or stderr (or since the    *)
(* clock was created).  The prompt text and the error messages are atoms.  *)
(***************************************************************************)
defaultIdleTimeout == 900
defaultMaxRestarts == 2

\* normalizeOptions
normalizeOptions(o) ==
    [IdleTimeout |-> IF o.IdleTimeout <= 0 THEN defaultIdleTimeout ELSE o.IdleTimeout,
     MaxRestarts |-> IF o.MaxRestarts < 0 THEN defaultMaxRestarts ELSE o.MaxRestarts]

\* buildCommand: the binary and its arguments, or the "unsupported agent" error
buildCommand(agent, model, extraArgs, fullPrompt) ==
    LET tail == (IF model # "" THEN <<"--model", model>> ELSE <<>>) \o extraArgs
    IN CASE agent = "claude"   -> [err |-> "none", binary |-> "claude",
                                   args |-> <<"-p", fullPrompt>> \o tail]
         [] agent = "codex"    -> [err |-> "none", binary |-> "codex",
                                   args |-> <<"exec", fullPrompt>> \o tail]
         [] agent = "opencode" -> [err |-> "none", binary |-> "opencode",
                                   args |-> <<"run", fullPrompt>> \o tail]
         [] OTHER              -> [err |-> "unsupported", binary |-> "", args |-> <<>>]

\* unicode.IsSpace on the characters a child writes
IsSpace(c) == c \in {" ", "\n"}

\* strings.TrimSpace: cut the leading, then the trailing white space
RECURSIVE TrimLeft(_)
TrimLeft(s) == IF s # <<>> /\ IsSpace(Head(s)) THEN TrimLeft(Tail(s)) ELSE s

RECURSIVE TrimRight(_)
TrimRight(s) ==
    IF s # <<>> /\ IsSpace(s[Len(s)]) THEN TrimRight(SubSeq(s, 1, Len(s) - 1)) ELSE s

\* a mutant of the trimming: only the leading white space is cut
TrimSpaceLeftOnly(s) == TrimLeft(s)

TrimSpace(s) == TrimRight(TrimLeft(s))

\* the values executeSkillOnce and ExecuteSkill return: a result, or an error
\* of one kind
Ret(kind, summary) == [kind |-> kind, Summary |-> summary]
NoRet == Ret("none", <<>>)

\* the characters of an agent's output: "{" stands for the opening of a JSON
\* object up to the value of its "summary" field, "v" for that value and "}"
\* for the closing of the object
ExtractChars == {" ", "\n", "s", "{", "v", "}"}
SummaryObject == <<"{", "v", "}">>
HasSummaryObject(text) == Contains(text, SummaryObject)

\* a mutant of extractResult: the "summary" field of a JSON object in the
\* output is returned, and an output without one is an error
extractResultSummaryField(text) ==
    IF HasSummaryObject(text) THEN Ret("result", <<"v">>) ELSE Ret("no_json", <<>>)

\* extractResult (through parseOutput)
extractResult(text) ==
    LET trimmed == TrimSpace(text)
    IN IF trimmed = <<>> THEN Ret("no_output", <<>>) ELSE Ret("result", trimmed)

NoCmd == [err |-> "none", binary |-> "", args |-> <<>>]

ExecAgents == {"", "codex", "opencode", "gemini"}
ExecInit ==
    /\ exArgs \in [agent : ExecAgents, model : {"", "m"}, extraArgs : {<<"-x">>},
                    opts : [IdleTimeout : 1..MaxIdleArg,
                            MaxRestarts : -1..MaxRestartsArg]]
    /\ opts = exArgs.opts
    /\ exCmd = NoCmd
    /\ attempt = 0
    /\ exPc = "start"
    /\ exRet = NoRet
    /\ procs = <<>>
    /\ doneCh = "empty"
    /\ tickCh = FALSE
    /\ idleFor = 0
    /\ stdoutBuf = <<>>
    /\ outcomes = <<>>

ExecIdle ==
    /\ exArgs = [agent |-> "", model |-> "", extraArgs |-> <<>>,
                 opts |-> [IdleTimeout |-> 0, MaxRestarts |-> 0]]
    /\ opts = exArgs.opts
    /\ exCmd = NoCmd
    /\ attempt = 0
    /\ exPc = "off"
    /\ exRet = NoRet
    /\ procs = <<>>
    /\ doneCh = "empty"
    /\ tickCh = FALSE
    /\ idleFor = 0
    /\ stdoutBuf = <<>>
    /\ outcomes = <<>>

\* ExecuteSkill up to its loop: the default agent, the options, the prompt and
\* the command
ExStart ==
    /\ exPc = "start"
    /\ LET agent == IF exArgs.agent = "" THEN "claude" ELSE exArgs.agent
           cmd == buildCommand(agent, exArgs.model, exArgs.extraArgs, "fullPrompt")
       IN /\ opts' = normalizeOptions(opts)
          /\ exCmd' = cmd
          /\ IF cmd.err # "none"
             THEN /\ exPc' = "returned"
                  /\ exRet' = Ret("unsupported_agent", <<>>)
             ELSE /\ exPc' = "attempt"
                  /\ exRet' = exRet
    /\ attempt' = 0
    /\ UNCHANGED <<exArgs, procs, doneCh, tickCh, idleFor, stdoutBuf, outcomes,
                   resolveVars, runVars, sessVars, cmdVars, idVars>>

\* a mutant of the retry test: any error of an attempt is retried
IsIdleTimeoutAnyError(r) == TRUE

\* errors.As(err, &idleErr)
IsIdleTimeout(r) == r.kind = "idle_timeout"

\* a mutant of the restart budget: one restart too many
MayRestartOffByOne(n, max) == n <= max

\* attempt < opts.MaxRestarts
MayRestart(n, max) == n < max

\* the body of ExecuteSkill's loop after executeSkillOnce returned r
AfterAttempt(r) ==
    /\ outcomes' = Append(outcomes, r.kind)
    /\ IF r.kind = "result"
       THEN /\ exPc' = "returned"
            /\ exRet' = r
            /\ attempt' = attempt
       ELSE IF IsIdleTimeout(r) /\ MayRestart(attempt, opts.MaxRestarts)
       THEN /\ exPc' = "attempt"
            /\ exRet' = exRet
            /\ attempt' = attempt + 1
       ELSE /\ exPc' = "returned"
            /\ exRet' = r
            /\ attempt' = attempt

\* executeSkillOnce up to its select loop: the buffers, the activity clock,
\* cmd.Start (which may fail), the waiting goroutine and the ticker
ExLaunch ==
    /\ exPc = "attempt"
    /\ stdoutBuf' = <<>>
    /\ idleFor' = 0
    /\ doneCh' = "empty"
    /\ tickCh' = FALSE
    /\ \/ /\ procs' = procs
          /\ AfterAttempt(Ret("start_failed", <<>>))
       \/ /\ procs' = Append(procs, [state |-> "running", code |-> 0, heirs |-> FALSE,
                                     binary |-> exCmd.binary, args |-> exCmd.args])
          /\ exPc' = "select"
          /\ UNCHANGED <<exRet, attempt, outcomes>>
    /\ UNCHANGED <<exArgs, opts, exCmd, resolveVars, runVars, sessVars, cmdVars, idVars>>

Running == procs # <<>> /\ procs[Len(procs)].state = "running"

\* the child writes one character on its standard output: the MultiWriter
\* copies it to the buffer and to the activity clock
ChildWriteStdout ==
    /\ exPc = "select"
    /\ Running
    /\ Len(stdoutBuf) < MaxOut
    /\ \E c \in {" ", "s"} : stdoutBuf' = Append(stdoutBuf, c)
    /\ idleFor' = 0
    /\ UNCHANGED <<exArgs, opts, exCmd, attempt, exPc, exRet, procs, doneCh, tickCh,
                   outcomes, resolveVars, runVars, sessVars, cmdVars, idVars>>

\* the child writes on its standard error: the activity clock is reset
ChildWriteStderr ==
    /\ exPc = "select"
    /\ Running
    /\ idleFor > 0
    /\ idleFor' = 0
    /\ UNCHANGED <<exArgs, opts, exCmd, attempt, exPc, exRet, procs, doneCh, tickCh,
                   stdoutBuf, outcomes, resolveVars, runVars, sessVars, cmdVars, idVars>>

\* what cmd.Wait returns for a child that ended with a code
WaitResult(code) == IF code = 0 THEN "nil" ELSE "exit_error"

\* cmd.Stdout and cmd.Stderr are no *os.File, so cmd.Wait returns only when
\* the child has exited and the copying from its pipes has ended, that is
\* when no process the child started still holds their write ends
HoldsPipes == procs # <<>> /\ procs[Len(procs)].heirs

\* the child exits by itself; cmd.Wait returns, and its result is sent on
\* done, unless the pipes are still held
ChildExit ==
    /\ exPc = "select"
    /\ Running
    /\ \E code \in {0, 1} :
        /\ procs' = [procs EXCEPT ![Len(procs)].state = "exited",
                                  ![Len(procs)].code = code]
        /\ doneCh' = IF HoldsPipes THEN doneCh ELSE WaitResult(code)
    /\ UNCHANGED <<exArgs, opts, exCmd, attempt, exPc, exRet, tickCh, idleFor,
                   stdoutBuf, outcomes, resolveVars, runVars, sessVars, cmdVars, idVars>>

\* the child starts a process of its own, which inherits its standard output
\* and standard error
ChildForks ==
    /\ exPc = "select"
    /\ Running
    /\ ~HoldsPipes
    /\ procs' = [procs EXCEPT ![Len(procs)].heirs = TRUE]
    /\ UNCHANGED <<exArgs, opts, exCmd, attempt, exPc, exRet, doneCh, tickCh, idleFor,
                   stdoutBuf, outcomes, resolveVars, runVars, sessVars, cmdVars, idVars>>

\* the processes the child started end, or close the pipes; when the child
\* has exited, cmd.Wait returns now and its result is sent on done
HeirsExit ==
    /\ exPc \in {"select", "draining"}
    /\ HoldsPipes
    /\ procs' = [procs EXCEPT ![Len(procs)].heirs = FALSE]
    /\ doneCh' = IF procs[Len(procs)].state = "exited"
                 THEN WaitResult(procs[Len(procs)].code)
                 ELSE doneCh
    /\ UNCHANGED <<exArgs, opts, exCmd, attempt, exPc, exRet, tickCh, idleFor,
                   stdoutBuf, outcomes, resolveVars, runVars, sessVars, cmdVars, idVars>>

\* one second passes: the ticker fires (its channel holds one tick)
ClockTick ==
    /\ exPc = "select"
    /\ idleFor <= opts.IdleTimeout
    /\ idleFor' = idleFor + 1
    /\ tickCh' = TRUE
    /\ UNCHANGED <<exArgs, opts, exCmd, attempt, exPc, exRet, procs, doneCh,
                   stdoutBuf, outcomes, resolveVars, runVars, sessVars, cmdVars, idVars>>

\* select, case err := <-done
SelectDone ==
    /\ exPc = "select"
    /\ doneCh # "empty"
    /\ doneCh' = "empty"
    /\ AfterAttempt(IF doneCh # "nil" THEN Ret("command_failed", <<>>)
                    ELSE extractResult(stdoutBuf))
    /\ UNCHANGED <<exArgs, opts, exCmd, procs, tickCh, idleFor, stdoutBuf,
                   resolveVars, runVars, sessVars, cmdVars, idVars>>

\* a mutant of the idle check: the child is killed when the idle time has
\* reached the timeout
IdleBreachAtLimit(idle, timeout) == timeout > 0 /\ idle >= timeout

\* idleTimeout > 0 && time.Since(lastActivity.Get()) > idleTimeout
IdleBreach(idle, timeout) == timeout > 0 /\ idle > timeout

\* a mutant of the kill: the idle-timeout error is produced while the child is
\* left running
KillNotAwaited(ps) == ps

\* cmd.Process.Kill(): the child, when it still runs, is killed; it has
\* exited when the receive from done returns
KillAndWait(ps) ==
    IF ps # <<>> /\ ps[Len(ps)].state = "running"
    THEN [ps EXCEPT ![Len(ps)].state = "exited", ![Len(ps)].code = -1]
    ELSE ps

\* select, case <-ticker.C: on a breach kill the child, receive from done
\* (blocking while cmd.Wait has not returned) and return the idle-timeout
\* error; else go round the loop
SelectTick ==
    /\ exPc = "select"
    /\ tickCh
    /\ tickCh' = FALSE
    /\ IF IdleBreach(idleFor, opts.IdleTimeout)
       THEN /\ procs' = KillAndWait(procs)
            /\ IF HoldsPipes
               THEN /\ exPc' = "draining"
                    /\ UNCHANGED <<doneCh, exRet, attempt, outcomes>>
               ELSE /\ doneCh' = "empty"
                    /\ AfterAttempt(Ret("idle_timeout", <<>>))
       ELSE UNCHANGED <<procs, doneCh, exPc, exRet, attempt, outcomes>>
    /\ UNCHANGED <<exArgs, opts, exCmd, idleFor, stdoutBuf, resolveVars, runVars, sessVars, cmdVars, idVars>>

\* the receive from done after the kill, once cmd.Wait has returned
DrainDone ==
    /\ exPc = "draining"
    /\ doneCh # "empty"
    /\ doneCh' = "empty"
    /\ AfterAttempt(Ret("idle_timeout", <<>>))
    /\ UNCHANGED <<exArgs, opts, exCmd, procs, tickCh, idleFor, stdoutBuf,
                   resolveVars, runVars, sessVars, cmdVars, idVars>>

\* parseOutput in the done case of executeSkillOnce: a child of the default
\* agent wrote its output, exited with status 0, and its exit is on done
ExtractInit ==
    /\ exArgs = [agent |-> "", model |-> "", extraArgs |-> <<>>,
                 opts |-> [IdleTimeout |-> 1, MaxRestarts |-> 0]]
    /\ opts = normalizeOptions(exArgs.opts)
    /\ exCmd = buildCommand("claude", "", <<>>, "fullPrompt")
    /\ attempt = 0
    /\ exPc = "select"
    /\ exRet = NoRet
    /\ procs = <<[state |-> "exited", code |-> 0, heirs |-> FALSE,
                  binary |-> exCmd.binary, args |-> exCmd.args]>>
    /\ doneCh = "nil"
    /\ tickCh = FALSE
    /\ idleFor = 0
    /\ stdoutBuf \in SeqsUpTo(ExtractChars, MaxTextLen)
    /\ outcomes = <<>>

(***************************************************************************)
(* The session registry (package session).  One session is followed: its   *)
(* directory with session.json and exit.code, its tmux session and the     *)
(* launch script running in it.  Each process (the one that runs, and a    *)
(* second one such as "sessions ls" or "sessions stop") holds its own      *)
(* *Metadata.  What tmux answers is part of the state: whether the binary  *)
(* is on PATH, whether the session exists, and whether its kill-session    *)
(* and new-session commands fail.                                          *)
(***************************************************************************)
DefaultIdleTimeoutSeconds == 900
DefaultMaxRestarts == 2

StatusPending == "pending"
StatusRunning == "running"
StatusIdle == "idle"
StatusDone == "done"
StatusFailed == "failed"
StatusStopped == "stopped"

\* a zero time.Time, and a nil *time.Time
NoTime == -1

Procs == {"runner", "observer"}
NoMeta == [ID |-> ""]

\* the messages Reconcile records in LastError
NoError == <<>>
ExitedWith(code) == <<"agent exited with code", code>>
Disappeared == <<"tmux session disappeared before exit code was written">>

\* strconv.Itoa and strconv.Atoi on decimal digits
Digits == <<"0", "1", "2", "3", "4", "5", "6", "7", "8", "9">>

RECURSIVE Itoa(_)
Itoa(n) ==
    IF n < 10 THEN <<Digits[n + 1]>> ELSE Itoa(n \div 10) \o <<Digits[(n % 10) + 1]>>

DigitValue(c) == CHOOSE d \in 0..9 : Digits[d + 1] = c
IsDigit(c) == \E d \in 0..9 : Digits[d + 1] = c

RECURSIVE AtoiDigits(_, _)
AtoiDigits(s, acc) ==
    IF s = <<>> THEN acc ELSE AtoiDigits(Tail(s), 10 * acc + DigitValue(Head(s)))

\* [ok, n]: the number, or a syntax error
Atoi(s) ==
    LET neg == s # <<>> /\ Head(s) = "-"
        body == IF s # <<>> /\ Head(s) \in {"-", "+"} THEN Tail(s) ELSE s
    IN IF body = <<>> \/ \E k \in 1..Len(body) : ~IsDigit(body[k])
       THEN [ok |-> FALSE, n |-> 0]
       ELSE [ok |-> TRUE, n |-> IF neg THEN 0 - AtoiDigits(body, 0)
                                       ELSE AtoiDigits(body, 0)]

\* the exit.code file: absent, or its content
NoFile == <<"absent">>

\* ReadExitCode: [code, has, err]
ReadExitCode(file) ==
    IF file = NoFile THEN [code |-> 0, has |-> FALSE, err |-> "nil"]
    ELSE LET s == TrimSpace(file)
         IN IF s = <<>> THEN [code |-> 0, has |-> FALSE, err |-> "nil"]
            ELSE IF ~Atoi(s).ok THEN [code |-> 0, has |-> FALSE, err |-> "parse_exit_code"]
            ELSE [code |-> Atoi(s).n, has |-> TRUE, err |-> "nil"]

\* HasTMuxSession: [has, err]
HasTMuxSession(installed, alive) ==
    IF ~installed THEN [has |-> FALSE, err |-> "tmux_not_found"]
    ELSE [has |-> alive, err |-> "nil"]

\* a mutant of killTMuxSession: the error of kill-session is dropped
killTMuxSessionIgnoresFailure(installed, alive, fails) ==
    LET h == HasTMuxSession(installed, alive)
    IN IF h.err # "nil" THEN [err |-> h.err, issued |-> FALSE, killed |-> FALSE]
       ELSE IF ~h.has THEN [err |-> "nil", issued |-> FALSE, killed |-> FALSE]
       ELSE [err |-> "nil", issued |-> TRUE, killed |-> ~fails]

\* killTMuxSession: the error, whether kill-session was run, whether the
\* session is gone by it
killTMuxSession(installed, alive, fails) ==
    LET h == HasTMuxSession(installed, alive)
    IN IF h.err # "nil" THEN [err |-> h.err, issued |-> FALSE, killed |-> FALSE]
       ELSE IF ~h.has THEN [err |-> "nil", issued |-> FALSE, killed |-> FALSE]
       ELSE IF fails THEN [err |-> "kill_failed", issued |-> TRUE, killed |-> FALSE]
       ELSE [err |-> "nil", issued |-> TRUE, killed |-> TRUE]

\* updateLastOutputAt: the later of LastOutputAt and the logs' modification time
updateLastOutputAt(m, mod) ==
    [m EXCEPT !.LastOutputAt = IF mod # NoTime /\ mod > @ THEN mod ELSE @]

\* a mutant of the end-time stamp: never stamped
EndedAtStampNever(m, t) == m

\* a mutant of the end-time stamp: stamped on every call
EndedAtStampAlways(m, t) == [m EXCEPT !.EndedAt = t]

\* if meta.EndedAt == nil { meta.EndedAt = &now }
EndedAtStamp(m, t) == IF m.EndedAt = NoTime THEN [m EXCEPT !.EndedAt = t] ELSE m

\* a mutant of the vanished-session test: Pending is forgotten
VanishedAppliesNotPending(status) == status \in {StatusRunning, StatusIdle}

\* meta.Status == StatusRunning || meta.Status == StatusIdle || meta.Status == StatusPending
VanishedApplies(status) == status \in {StatusRunning, StatusIdle, StatusPending}

\* a mutant of the exit-code classification: every exit code is a success
ClassifyExitAlwaysDone(m, code) ==
    [m EXCEPT !.Status = StatusDone, !.LastError = NoError]

\* the status and message for an exit code
ClassifyExit(m, code) ==
    IF code = 0 THEN [m EXCEPT !.Status = StatusDone, !.LastError = NoError]
    ELSE [m EXCEPT !.Status = StatusFailed, !.LastError = ExitedWith(code)]

\* Reconcile on metadata m, as a function of what it reads: the metadata it
\* leaves in memory, its error, whether it calls Save, and its kill
ReconcileOutcome(m0, file, mod, installed, alive, fails, t) ==
    LET m == updateLastOutputAt(m0, mod)
        rd == ReadExitCode(file)
        kill == killTMuxSession(installed, alive, fails)
        hs == HasTMuxSession(installed, alive)
        nokill == [err |-> "nil", issued |-> FALSE, killed |-> FALSE]
    IN IF rd.err # "nil"
       THEN [meta |-> m, err |-> rd.err, save |-> FALSE, kill |-> nokill]
       ELSE IF rd.has
       THEN IF kill.err \notin {"nil", "tmux_not_found"}
            THEN [meta |-> m, err |-> "cleanup_tmux", save |-> FALSE, kill |-> kill]
            ELSE [meta |-> EndedAtStamp(ClassifyExit(m, rd.code), t), err |-> "nil",
                  save |-> TRUE, kill |-> kill]
       ELSE IF hs.err # "nil"
       THEN [meta |-> m, err |-> hs.err, save |-> FALSE, kill |-> nokill]
       ELSE IF hs.has
       THEN IF m.Status # StatusRunning
            THEN [meta |-> [m EXCEPT !.Status = StatusRunning, !.EndedAt = NoTime],
                  err |-> "nil", save |-> TRUE, kill |-> nokill]
            ELSE [meta |-> m, err |-> "nil", save |-> FALSE, kill |-> nokill]
       ELSE IF VanishedApplies(m.Status)
       THEN [meta |-> EndedAtStamp(
                        [m EXCEPT !.Status = StatusFailed,
                                  !.LastError = IF @ = NoError THEN Disappeared ELSE @],
                        t),
             err |-> "nil", save |-> TRUE, kill |-> nokill]
       ELSE [meta |-> m, err |-> "nil", save |-> FALSE, kill |-> nokill]

\* the exit codes of the command in the launch script
ExitCodes == {0, 3}

NoScript == [pc |-> "none", code |-> 0]
NoCall == [op |-> "none", err |-> "nil", kills |-> 0, rep |-> FALSE]

SessInit ==
    /\ mem = [p \in Procs |-> NoMeta]
    /\ dirExists = FALSE
    /\ disk = NoMeta
    /\ exitFile = NoFile
    /\ logMod = NoTime
    /\ tmuxInstalled \in BOOLEAN
    /\ tmuxFails = FALSE
    /\ diskOk = TRUE
    /\ tmuxAlive = FALSE
    /\ script = NoScript
    /\ now = 0
    /\ last = NoCall
    /\ runnerPc = "new"
    /\ quiet = "same"

SessIdle ==
    /\ mem = [p \in Procs |-> NoMeta]
    /\ dirExists = FALSE
    /\ disk = NoMeta
    /\ exitFile = NoFile
    /\ logMod = NoTime
    /\ tmuxInstalled = FALSE
    /\ tmuxFails = FALSE
    /\ diskOk = TRUE
    /\ tmuxAlive = FALSE
    /\ script = NoScript
    /\ now = 0
    /\ last = NoCall
    /\ runnerPc = "exited"
    /\ quiet = "same"

\* the record of the registry call just made: the operation, the error it
\* returned, the kill-session commands it ran, and whether it repeats the call
\* before it with the exit-code file, tmux and the disk as that call left them;
\* quiet tells what happened since the call: nothing ("same"), only that tmux
\* commands or writes of session.json began or ceased to fail ("faults"), or
\* the exit-code file, the session directory or the tmux session changed
Called(op, err, kills) ==
    /\ last' = [op |-> op, err |-> err, kills |-> kills,
                rep |-> (last.op = op /\ quiet = "same")]
    /\ quiet' = "same"

\* what a kill of the tmux session does to it and to the script in it
AfterKill(killed) ==
    /\ tmuxAlive' = (tmuxAlive /\ ~killed)
    /\ script' = IF killed /\ script.pc \in {"running", "writing"} THEN NoScript
                 ELSE script

\* Save: session.json is written, or the write fails
SaveOk == diskOk /\ dirExists

\* a mutant of Save: nothing is written, and no error is returned
SaveSkipsWrite(m) == disk

\* Save: what session.json holds after Save(m)
Save(m) == IF SaveOk THEN m ELSE disk

\* a mutant of the metadata New builds: the session counts as Running at once
NewMetadataRunning(t, idleTimeout, maxRestarts) ==
    [ID |-> "id", Status |-> StatusRunning, PID |-> 0,
     StartedAt |-> t, LastOutputAt |-> t,
     EndedAt |-> NoTime, LastError |-> NoError,
     IdleTimeoutSeconds |->
         IF idleTimeout <= 0 THEN DefaultIdleTimeoutSeconds ELSE idleTimeout,
     MaxRestarts |-> IF maxRestarts < 0 THEN DefaultMaxRestarts ELSE maxRestarts]

\* the metadata New builds
NewMetadata(t, idleTimeout, maxRestarts) ==
    [ID |-> "id", Status |-> StatusPending, PID |-> 0,
     StartedAt |-> t, LastOutputAt |-> t,
     EndedAt |-> NoTime, LastError |-> NoError,
     IdleTimeoutSeconds |->
         IF idleTimeout <= 0 THEN DefaultIdleTimeoutSeconds ELSE idleTimeout,
     MaxRestarts |-> IF maxRestarts < 0 THEN DefaultMaxRestarts ELSE maxRestarts]

\* the command vectors New is called with
Commands == {<<>>, <<"skill-loop", "run">>}

\* New: the session directory, the launch script and the Pending metadata
New(p, command) ==
    /\ runnerPc = "new"
    /\ \E idleTimeout \in {0} : \E maxRestarts \in {0} :
        IF Len(command) = 0
        THEN /\ Called("New", "command_required", 0)
             /\ runnerPc' = "exited"
             /\ UNCHANGED <<mem, dirExists, disk>>
        ELSE IF ~diskOk
        THEN \* the directory and run.sh are there, Save fails
             /\ dirExists' = TRUE
             /\ Called("New", "write_session_metadata", 0)
             /\ runnerPc' = "exited"
             /\ UNCHANGED <<mem, disk>>
        ELSE LET meta == NewMetadata(now, idleTimeout, maxRestarts)
             IN /\ dirExists' = TRUE
                /\ disk' = meta
                /\ mem' = [mem EXCEPT ![p] = meta]
                /\ Called("New", "nil", 0)
                /\ runnerPc' = "start"
    /\ UNCHANGED <<exitFile, logMod, tmuxInstalled, tmuxFails, diskOk, tmuxAlive,
                   script, now, resolveVars, runVars, execVars, cmdVars, idVars>>

\* List and LoadByID: a process reads session.json into a Metadata of its own;
\* List skips the directory whose session.json cannot be read
Load(p) ==
    /\ dirExists
    /\ IF disk # NoMeta
       THEN /\ mem[p] # disk
            /\ mem' = [mem EXCEPT ![p] = disk]
            /\ Called("Load", "nil", 0)
       ELSE /\ last.op # "Load"
            /\ mem' = [mem EXCEPT ![p] = NoMeta]
            /\ Called("Load", "read_session_metadata", 0)
    /\ UNCHANGED <<dirExists, disk, exitFile, logMod, tmuxInstalled, tmuxFails,
                   diskOk, tmuxAlive, script, now, runnerPc, resolveVars, runVars, execVars, cmdVars, idVars>>

\* a mutant of the record Start writes: the session counts as Idle
StartedIdle(m, t) ==
    [m EXCEPT !.StartedAt = IF @ = NoTime THEN t ELSE @,
              !.Status = StatusIdle,
              !.EndedAt = NoTime,
              !.PID = 1]

\* the record Start writes once the tmux session is launched
Started(m, t) ==
    LET started == IF m.StartedAt = NoTime THEN t ELSE m.StartedAt
    IN [m EXCEPT !.StartedAt = started,
                 !.Status = StatusRunning,
                 !.EndedAt = NoTime,
                 !.LastOutputAt = IF @ = NoTime THEN started ELSE @,
                 !.PID = 1]

\* a mutant of startDetachedRun's test of Start's error: only a failed launch
\* is cleaned up after
StartFailedOnlyLaunch(err) == err = "start_tmux"

\* startDetachedRun: if err := session.Start(meta); err != nil
StartFailed(err) == err # "nil"

\* what the script of an earlier launch, still running its command in the tmux
\* session of that name, leaves in exit.code between the os.Remove of the file
\* and the kill of that session: the command ends and the script creates the
\* file, and writes the code before it is killed or not
LateExitCode ==
    IF tmuxAlive /\ script.pc = "running"
    THEN {<<>>} \cup {Itoa(code) \o <<"\n">> : code \in ExitCodes}
    ELSE {}

\* Start
Start(p) ==
    /\ runnerPc = "start"
    /\ LET m == mem[p]
           kill == killTMuxSession(tmuxInstalled, tmuxAlive, tmuxFails)
           stale == tmuxAlive /\ ~kill.killed
           m2 == Started(m, now)
           n1 == IF kill.issued THEN 1 ELSE 0
       IN IF ~tmuxInstalled
          THEN /\ Called("Start", "tmux_required", 0)
               /\ UNCHANGED <<mem, dirExists, disk, exitFile, tmuxAlive, script>>
          ELSE /\ dirExists' = TRUE
               /\ IF stale \/ tmuxFails
                  THEN \* tmux new-session fails
                       /\ exitFile' = NoFile
                       /\ AfterKill(kill.killed)
                       /\ Called("Start", "start_tmux", n1)
                       /\ UNCHANGED <<mem, disk>>
                  ELSE \* new-session succeeds; without run.sh (the directory
                       \* was removed) bash ends at once, and the session is
                       \* gone or stays as a dead pane
                       \E a \in IF dirExists THEN {TRUE} ELSE BOOLEAN :
                       LET m3 == IF a THEN m2 ELSE [m2 EXCEPT !.PID = m.PID]
                       IN /\ exitFile' \in {NoFile} \cup LateExitCode
                          /\ mem' = [mem EXCEPT ![p] = m3]
                          /\ IF diskOk
                             THEN /\ disk' = m3
                                  /\ tmuxAlive' = a
                                  /\ script' = IF dirExists
                                               THEN [pc |-> "running", code |-> 0]
                                               ELSE NoScript
                                  /\ Called("Start", "nil", n1)
                             ELSE \* Save fails: the new session is killed again
                                  /\ disk' = disk
                                  /\ tmuxAlive' = FALSE
                                  /\ script' = NoScript
                                  /\ Called("Start", "persist_started",
                                            n1 + IF a THEN 1 ELSE 0)
    /\ runnerPc' = IF StartFailed(last'.err) THEN "cleanup" ELSE "exited"
    /\ UNCHANGED <<logMod, tmuxInstalled, tmuxFails, diskOk, now,
                   resolveVars, runVars, execVars, cmdVars, idVars>>

\* os.RemoveAll on the session directory: it removes it (TRUE) or fails, which
\* it can only while writes under the sessions directory fail
RemoveAllOutcomes == IF diskOk THEN {TRUE} ELSE BOOLEAN

\* startDetachedRun after a failed Start: the session directory is removed
\* and Start's error returned, or the removal fails and the error names both
RemoveSessionDir ==
    /\ runnerPc = "cleanup"
    /\ \E removed \in RemoveAllOutcomes :
        IF removed
        THEN /\ runnerPc' = "exited"
             /\ dirExists' = FALSE
             /\ disk' = NoMeta
             /\ exitFile' = NoFile
             /\ logMod' = NoTime
             /\ quiet' = "changed"
        ELSE /\ runnerPc' = "cleanup_failed"
             /\ UNCHANGED <<dirExists, disk, exitFile, logMod, quiet>>
    /\ UNCHANGED <<mem, tmuxInstalled, tmuxFails, diskOk, tmuxAlive, script, now,
                   last, resolveVars, runVars, execVars, cmdVars, idVars>>

\* Stop
Stop(p) ==
    /\ mem[p] # NoMeta
    /\ LET m == mem[p]
           kill == killTMuxSession(tmuxInstalled, tmuxAlive, tmuxFails)
           m2 == [m EXCEPT !.Status = StatusStopped, !.EndedAt = now,
                           !.LastError = NoError]
       IN IF kill.err # "nil"
          THEN /\ Called("Stop", "stop_tmux", IF kill.issued THEN 1 ELSE 0)
               /\ UNCHANGED <<mem, disk, tmuxAlive, script>>
          ELSE /\ AfterKill(kill.killed)
               /\ mem' = [mem EXCEPT ![p] = m2]
               /\ disk' = Save(m2)
               /\ Called("Stop", IF SaveOk THEN "nil" ELSE "save",
                         IF kill.issued THEN 1 ELSE 0)
    /\ UNCHANGED <<dirExists, exitFile, logMod, tmuxInstalled, tmuxFails, diskOk,
                   now, runnerPc, resolveVars, runVars, execVars, cmdVars, idVars>>

\* prune: the sessions it deletes after Reconcile
isTerminalStatus(status) ==
    status \in {StatusDone, StatusFailed, StatusStopped}
\* a mutant of prune's tests: the --all flag is not looked at
PruneDeletesAnyNotRunning(status, all) == status # StatusRunning

PruneDeletes(status, all) ==
    status # StatusRunning /\ (all \/ isTerminalStatus(status))

\* DeleteByID, as prune calls it with or without --all
PruneDelete(p, all) ==
    /\ mem[p] # NoMeta
    /\ PruneDeletes(mem[p].Status, all)
    /\ LET loaded == dirExists /\ disk # NoMeta
           kill == IF loaded
                   THEN killTMuxSession(tmuxInstalled, tmuxAlive, tmuxFails)
                   ELSE [err |-> "nil", issued |-> FALSE, killed |-> FALSE]
           n1 == IF kill.issued THEN 1 ELSE 0
       IN IF kill.err \notin {"nil", "tmux_not_found"}
          THEN /\ Called("DeleteByID", "kill_tmux", n1)
               /\ UNCHANGED <<dirExists, disk, exitFile, logMod, tmuxAlive, script>>
          ELSE /\ AfterKill(kill.killed)
               /\ \E removed \in RemoveAllOutcomes :
                    IF removed
                    THEN /\ dirExists' = FALSE
                         /\ disk' = NoMeta
                         /\ exitFile' = NoFile
                         /\ logMod' = NoTime
                         /\ Called("DeleteByID", "nil", n1)
                    ELSE /\ Called("DeleteByID", "delete_session_directory", n1)
                         /\ UNCHANGED <<dirExists, disk, exitFile, logMod>>
    /\ UNCHANGED <<mem, tmuxInstalled, tmuxFails, diskOk, now, runnerPc,
                   resolveVars, runVars, execVars, cmdVars, idVars>>

\* DeleteByID, as prune calls it
DeleteByID(p) == \E all \in BOOLEAN : PruneDelete(p, all)

\* Reconcile
Reconcile(p) ==
    /\ mem[p] # NoMeta
    /\ LET m == mem[p]
           out == ReconcileOutcome(m, exitFile, logMod, tmuxInstalled, tmuxAlive,
                                   tmuxFails, now)
           err == IF out.err = "nil" /\ out.save /\ ~SaveOk THEN "save" ELSE out.err
       IN /\ mem' = [mem EXCEPT ![p] = out.meta]
          /\ AfterKill(out.kill.killed)
          /\ disk' = IF out.save THEN Save(out.meta) ELSE disk
          /\ Called("Reconcile", err, IF out.kill.issued THEN 1 ELSE 0)
    /\ UNCHANGED <<dirExists, exitFile, logMod, tmuxInstalled, tmuxFails, diskOk,
                   now, runnerPc, resolveVars, runVars, execVars, cmdVars, idVars>>

(***************************************************************************)
(* What happens around the registry: the script in the tmux session, the   *)
(* clock, and tmux itself.                                                 *)
(***************************************************************************)
\* the command writes to its logs through tee
ScriptOutput ==
    /\ script.pc = "running"
    /\ logMod # now
    /\ logMod' = now
    /\ UNCHANGED <<mem, dirExists, disk, exitFile, tmuxInstalled, tmuxFails, diskOk,
                   tmuxAlive, script, now, last, quiet, runnerPc, resolveVars, runVars, execVars, cmdVars, idVars>>

\* the command ends; the script opens exit.code for writing (echo "$code" > file)
CommandEnds ==
    /\ script.pc = "running"
    /\ \E code \in ExitCodes : script' = [pc |-> "writing", code |-> code]
    /\ exitFile' = <<>>
    /\ quiet' = "changed"
    /\ UNCHANGED <<mem, dirExists, disk, logMod, tmuxInstalled, tmuxFails, diskOk,
                   tmuxAlive, now, last, runnerPc, resolveVars, runVars, execVars, cmdVars, idVars>>

\* the script writes the exit code and exits; the pane stays (remain-on-exit)
ScriptWritesExitCode ==
    /\ script.pc = "writing"
    /\ exitFile' = Itoa(script.code) \o <<"\n">>
    /\ script' = [pc |-> "finished", code |-> 0]
    /\ quiet' = "changed"
    /\ UNCHANGED <<mem, dirExists, disk, logMod, tmuxInstalled, tmuxFails, diskOk,
                   tmuxAlive, now, last, runnerPc, resolveVars, runVars, execVars, cmdVars, idVars>>

\* the tmux session ends by something else than the registry
TmuxVanishes ==
    /\ tmuxAlive
    /\ tmuxAlive' = FALSE
    /\ script' = IF script.pc \in {"running", "writing"} THEN NoScript ELSE script
    /\ quiet' = "changed"
    /\ UNCHANGED <<mem, dirExists, disk, exitFile, logMod, tmuxInstalled, tmuxFails,
                   diskOk, now, last, runnerPc, resolveVars, runVars, execVars, cmdVars, idVars>>

\* tmux commands start or stop failing; writes of session.json start or stop
\* failing
TmuxFailsFlips ==
    /\ tmuxInstalled
    /\ tmuxFails' = ~tmuxFails
    /\ quiet' = IF quiet = "same" THEN "faults" ELSE quiet
    /\ UNCHANGED <<mem, dirExists, disk, exitFile, logMod, tmuxInstalled, diskOk,
                   tmuxAlive, script, now, last, runnerPc, resolveVars, runVars, execVars, cmdVars, idVars>>

DiskOkFlips ==
    /\ diskOk' = ~diskOk
    /\ quiet' = IF quiet = "same" THEN "faults" ELSE quiet
    /\ UNCHANGED <<mem, dirExists, disk, exitFile, logMod, tmuxInstalled, tmuxFails,
                   tmuxAlive, script, now, last, runnerPc, resolveVars, runVars, execVars, cmdVars, idVars>>

Tick ==
    /\ dirExists
    /\ now < MaxTime
    /\ now' = now + 1
    /\ UNCHANGED <<mem, dirExists, disk, exitFile, logMod, tmuxInstalled, tmuxFails,
                   diskOk, tmuxAlive, script, last, quiet, runnerPc, resolveVars,
                   runVars, execVars, cmdVars, idVars>>

(***************************************************************************)
(* The run command: NewRunCmd, buildRunChildArgs and startDetachedRun.     *)
(* Command-line words are sequences of characters, or of one whole word.   *)
(***************************************************************************)
ChildMarker == <<"SKILL_LOOP_RUN_CHILD=1">>

\* buildRunChildArgs
buildRunChildArgs(cfgPath, maxIter, pr, entry) ==
    <<<<"run">>, cfgPath>>
    \o (IF maxIter > 0 THEN <<<<"--max-iterations">>, Itoa(maxIter)>> ELSE <<>>)
    \o (IF pr # <<>> THEN <<<<"--prompt">>, pr>> ELSE <<>>)
    \o (IF entry # <<>> THEN <<<<"--entrypoint">>, entry>> ELSE <<>>)

\* a mutant of the command startDetachedRun registers: the marker is left out
DetachedCommandNoMarker(goBuild, childArgs) ==
    <<<<"env">>>>
    \o (IF goBuild THEN <<<<"go">>, <<"run">>, <<"./cmd/skill-loop">>>>
        ELSE <<<<"exe">>>>)
    \o childArgs

\* the command startDetachedRun registers
DetachedCommand(goBuild, childArgs) ==
    <<<<"env">>, ChildMarker>>
    \o (IF goBuild THEN <<<<"go">>, <<"run">>, <<"./cmd/skill-loop">>>>
        ELSE <<<<"exe">>>>)
    \o childArgs

\* os.Getenv("SKILL_LOOP_RUN_CHILD") == "1" in the process a command starts:
\* env sets the variable when the assignment follows it
GetenvRunChild(command) ==
    Len(command) >= 2 /\ command[1] = <<"env">> /\ command[2] = ChildMarker

\* the words the started program receives: after env, its assignment and the
\* program (exe, or go run ./cmd/skill-loop)
RECURSIVE DropWords(_, _)
DropWords(s, n) == IF n = 0 \/ s = <<>> THEN s ELSE DropWords(Tail(s), n - 1)
ProgramArgs(command) ==
    LET rest == IF GetenvRunChild(command) THEN DropWords(command, 2)
                ELSE DropWords(command, 1)
    IN IF rest # <<>> /\ Head(rest) = <<"go">> THEN DropWords(rest, 3)
       ELSE DropWords(rest, 1)

\* the flags of the run command, as cobra reads them
NoFlags == [maxIterations |-> 0, prompt |-> <<>>, entrypoint |-> <<>>]
RECURSIVE ParseFlags(_, _)
ParseFlags(args, acc) ==
    IF args = <<>> THEN acc
    ELSE IF Len(args) >= 2 /\ Head(args) = <<"--max-iterations">>
    THEN ParseFlags(DropWords(args, 2), [acc EXCEPT !.maxIterations = Atoi(args[2]).n])
    ELSE IF Len(args) >= 2 /\ Head(args) = <<"--prompt">>
    THEN ParseFlags(DropWords(args, 2), [acc EXCEPT !.prompt = args[2]])
    ELSE IF Len(args) >= 2 /\ Head(args) = <<"--entrypoint">>
    THEN ParseFlags(DropWords(args, 2), [acc EXCEPT !.entrypoint = args[2]])
    ELSE ParseFlags(Tail(args), acc)

\* one invocation of the run command
Invocation(marker, flags, goBuild) ==
    [marker |-> marker, flags |-> flags, goBuild |-> goBuild, pc |-> "load",
     created |-> 0, started |-> 0, loops |-> 0]

\* the invocation the launch script makes of a command
Spawned(command, goBuild) ==
    Invocation(GetenvRunChild(command), ParseFlags(ProgramArgs(command), NoFlags),
               goBuild)

CmdInit ==
    \E marker \in BOOLEAN, goBuild \in BOOLEAN, n \in 0..MaxIter,
       pr \in {<<>>, <<"x">>}, entry \in {<<>>, <<"B">>} :
        invs = <<Invocation(marker,
                            [maxIterations |-> n, prompt |-> pr, entrypoint |-> entry],
                            goBuild)>>

CmdIdle == invs = <<>>

\* config.Load
LoadConfig(k) ==
    /\ invs[k].pc = "load"
    /\ \E ok \in BOOLEAN :
        invs' = [invs EXCEPT ![k].pc = IF ok THEN "loaded" ELSE "failed"]
    /\ UNCHANGED <<resolveVars, runVars, execVars, sessVars, idVars>>

\* child mode: orchestrator.Run, to its end
RunChild(k) ==
    /\ invs[k].pc = "loaded"
    /\ invs[k].marker
    /\ \E ok \in BOOLEAN :
        invs' = [invs EXCEPT ![k].loops = @ + 1,
                             ![k].pc = IF ok THEN "done" ELSE "failed"]
    /\ UNCHANGED <<resolveVars, runVars, execVars, sessVars, idVars>>

\* startDetachedRun: session.New
DetachNew(k) ==
    /\ invs[k].pc = "loaded"
    /\ ~invs[k].marker
    /\ \E ok \in BOOLEAN :
        invs' = IF ok THEN [invs EXCEPT ![k].created = @ + 1, ![k].pc = "created"]
                ELSE [invs EXCEPT ![k].pc = "failed"]
    /\ UNCHANGED <<resolveVars, runVars, execVars, sessVars, idVars>>

\* startDetachedRun: session.Start; the launch script runs the command
DetachStart(k) ==
    /\ invs[k].pc = "created"
    /\ Len(invs) < MaxInvocations
    /\ LET f == invs[k].flags
           command == DetachedCommand(invs[k].goBuild,
                          buildRunChildArgs(<<"cfg">>, f.maxIterations, f.prompt,
                                            f.entrypoint))
       IN \E ok \in BOOLEAN :
            invs' = IF ok
                    THEN Append([invs EXCEPT ![k].started = @ + 1, ![k].pc = "done"],
                                Spawned(command, invs[k].goBuild))
                    ELSE [invs EXCEPT ![k].pc = "failed"]
    /\ UNCHANGED <<resolveVars, runVars, execVars, sessVars, idVars>>

(***************************************************************************)
(* Session ids: newID and the directory New creates for it.  Several runs  *)
(* call New on one sessions directory; each reads the clock and four       *)
(* random bytes.                                                           *)
(***************************************************************************)
\* the values of the four random bytes
RandBufs == {"00000000", "ffffffff"}

\* newID: the second of the clock in the layout 20060102T150405Z, a dash and
\* the bytes in hexadecimal
newID(second, buf) == <<second, "-", buf>>

\* fmt.Sprintf("skill-loop-%s", id) and filepath.Join(SessionsRoot, id)
TmuxSessionOf(id) == <<"skill-loop-">> \o id
SessionDirOf(id) == <<".skill-loop", "sessions">> \o id

AllIDs == {newID(s, b) : s \in 0..MaxWall, b \in RandBufs}

\* an absent directory; else the number of the New call that wrote its
\* run.sh and session.json last
NoDir == 0

IdInit ==
    /\ sessionDirs = [id \in AllIDs |-> NoDir]
    /\ newIds = <<>>
    /\ wallClock \in 0..MaxWall

IdIdle ==
    /\ sessionDirs = [id \in AllIDs |-> NoDir]
    /\ newIds = <<>>
    /\ wallClock = 0

\* New by any run: newID, MkdirAll, writeScript, Save
NewSession ==
    /\ Len(newIds) < MaxNew
    /\ \E buf \in RandBufs :
        LET id == newID(wallClock, buf)
        IN /\ sessionDirs' = [sessionDirs EXCEPT ![id] = Len(newIds) + 1]
           /\ newIds' = Append(newIds, id)
    /\ UNCHANGED <<wallClock, resolveVars, runVars, execVars, sessVars, cmdVars>>

\* a second passes
WallTick ==
    /\ wallClock < MaxWall
    /\ wallClock' = wallClock + 1
    /\ UNCHANGED <<sessionDirs, newIds, resolveVars, runVars, execVars, sessVars, cmdVars>>

(***************************************************************************)
(* Specifications.                                                         *)
(***************************************************************************)
InitResolve == ResolveInit /\ RunIdle /\ ExecIdle /\ SessIdle /\ CmdIdle /\ IdIdle
NextResolve == Resolve
SpecResolve == InitResolve /\ [][NextResolve]_vars

InitRun == ResolveIdle /\ RunInit /\ ExecIdle /\ SessIdle /\ CmdIdle /\ IdIdle
NextRun == RunStart \/ RunCall \/ RunReturn \/ RunMaxReached
SpecRun == InitRun /\ [][NextRun]_vars

InitExec == ResolveIdle /\ RunIdle /\ ExecInit /\ SessIdle /\ CmdIdle /\ IdIdle
NextExec ==
    \/ ExStart
    \/ ExLaunch
    \/ ChildWriteStdout
    \/ ChildWriteStderr
    \/ ChildExit
    \/ ClockTick
    \/ SelectDone
    \/ SelectTick
    \/ ChildForks
    \/ HeirsExit
    \/ DrainDone
SpecExec == InitExec /\ [][NextExec]_vars

InitSession == ResolveIdle /\ RunIdle /\ ExecIdle /\ SessInit /\ CmdIdle /\ IdIdle
NextSession ==
    \/ \E command \in Commands : New("runner", command)
    \/ Start("runner")
    \/ RemoveSessionDir
    \/ Load("observer")
    \/ Stop("observer")
    \/ Reconcile("observer")
    \/ DeleteByID("observer")
    \/ ScriptOutput
    \/ CommandEnds
    \/ ScriptWritesExitCode
    \/ TmuxVanishes
    \/ TmuxFailsFlips
    \/ DiskOkFlips
    \/ Tick
SpecSession == InitSession /\ [][NextSession]_vars

\* Start on the record of a session that may have run before: any status, an
\* exit-code file and a tmux session of the same name present or not
RecordOf(status, pid, ended, lastError) ==
    [ID |-> "id", Status |-> status, PID |-> pid, StartedAt |-> 0,
     LastOutputAt |-> 0, EndedAt |-> ended, LastError |-> lastError,
     IdleTimeoutSeconds |-> DefaultIdleTimeoutSeconds, MaxRestarts |-> 0]
StartRecords ==
    {RecordOf(StatusPending, 0, NoTime, NoError),
     RecordOf(StatusRunning, 1, NoTime, NoError),
     RecordOf(StatusDone, 1, 0, NoError),
     RecordOf(StatusFailed, 1, 0, ExitedWith(3)),
     RecordOf(StatusFailed, 1, 0, Disappeared),
     RecordOf(StatusStopped, 1, 0, NoError)}
StartInit ==
    /\ \E r \in StartRecords :
        /\ mem = [p \in Procs |-> IF p = "runner" THEN r ELSE NoMeta]
        /\ disk = r
    /\ dirExists = TRUE
    /\ exitFile \in {NoFile} \cup {Itoa(c) \o <<"\n">> : c \in ExitCodes}
    /\ logMod = NoTime
    /\ tmuxInstalled \in BOOLEAN
    /\ tmuxFails \in BOOLEAN
    /\ diskOk \in BOOLEAN
    /\ tmuxAlive \in {a \in BOOLEAN : a => tmuxInstalled}
    /\ script = IF ~tmuxAlive THEN NoScript
                ELSE IF exitFile = NoFile THEN [pc |-> "running", code |-> 0]
                ELSE [pc |-> "finished", code |-> 0]
    /\ now = 0
    /\ last = NoCall
    /\ runnerPc = "start"
    /\ quiet = "same"
InitStart == ResolveIdle /\ RunIdle /\ ExecIdle /\ StartInit /\ CmdIdle /\ IdIdle
NextStart ==
    \/ Start("runner")
    \/ RemoveSessionDir
    \/ CommandEnds
    \/ ScriptWritesExitCode
    \/ TmuxVanishes
SpecStart == InitStart /\ [][NextStart]_vars

InitCmd == ResolveIdle /\ RunIdle /\ ExecIdle /\ SessIdle /\ CmdInit /\ IdIdle
NextCmd ==
    \/ \E k \in 1..Len(invs) : LoadConfig(k)
    \/ \E k \in 1..Len(invs) : RunChild(k)
    \/ \E k \in 1..Len(invs) : DetachNew(k)
    \/ \E k \in 1..Len(invs) : DetachStart(k)
SpecCmd == InitCmd /\ [][NextCmd]_vars

InitExtract == ResolveIdle /\ RunIdle /\ ExtractInit /\ SessIdle /\ CmdIdle /\ IdIdle
NextExtract == SelectDone
SpecExtract == InitExtract /\ [][NextExtract]_vars

\* Liveness.  One call of ExecuteSkill for the default agent, or one run of
\* RunWith from the default entrypoint with an override of the cap and no seed
\* prompt, under the
\* scheduling the program has: the goroutines of
\* ExecuteSkill and RunWith keep taking their steps, the ticker keeps firing
\* and every executor call RunWith makes returns.  What a child does (write,
\* exit) is under no fairness.
InitLive ==
    \/ InitExec /\ exArgs.agent = "" /\ exArgs.model = ""
    \/ InitRun /\ maxIterations > 0 /\ cfg.MaxIterations = 0 /\ prompt = <<>>
              /\ entrypoint = ""
NextLive == NextExec \/ NextRun
SpecLive ==
    /\ InitLive
    /\ [][NextLive]_vars
    /\ WF_vars(ExStart) /\ WF_vars(ExLaunch)
    /\ WF_vars(ClockTick) /\ WF_vars(SelectTick) /\ WF_vars(SelectDone)
    /\ WF_vars(DrainDone)
    /\ WF_vars(RunStart) /\ WF_vars(RunCall) /\ WF_vars(RunReturn)
    /\ WF_vars(RunMaxReached)

InitId == ResolveIdle /\ RunIdle /\ ExecIdle /\ SessIdle /\ CmdIdle /\ IdInit
NextId == NewSession \/ WallTick
SpecId == InitId /\ [][NextId]_vars

(***************************************************************************)
(* Properties.                                                             *)
(***************************************************************************)
\* w occurs in s at offset a, character by character (case matters: "k" and
\* "K" are different characters)
OccursAt(w, s, a) == \A j \in 1..Len(w) : s[a + j] = w[j]

\* the route's trigger is empty or occurs somewhere in the summary
Triggered(r, s) ==
    \/ Len(r.When) = 0
    \/ \E a \in 0..(Len(s) - Len(r.When)) : OccursAt(r.When, s, a)

\* the target of the first triggered route in declaration order, else <DONE>
FirstTriggeredTarget(routes, s) ==
    LET hits == {k \in 1..Len(routes) : Triggered(routes[k], s)}
    IN IF hits = {} THEN DONE
       ELSE routes[CHOOSE k \in hits : \A m \in hits : k <= m].Skill

\* C1: resolveNext returns the target of the first route, in declaration
\* order, whose trigger is empty or a case-sensitive substring of the summary,
\* and <DONE> when the list is empty or no route matches.
C1_FirstMatchWins ==
    rnPc = "returned" => rnOut = FirstTriggeredTarget(rnRoutes, rnSummary)

\* C1 witness: two routes are triggered by the summary, with different
\* targets, after a route whose trigger differs from the summary only in case;
\* the first triggered one is returned.
C1_Witness ==
    /\ rnPc = "returned"
    /\ rnSummary = <<"K", "k", "k">>
    /\ Len(rnRoutes) = 2
    /\ rnRoutes[1].When = <<"k", "k">>
    /\ rnRoutes[2].When = <<>>
    /\ rnRoutes[1].Skill = DONE
    /\ rnRoutes[2].Skill = "impl"
    /\ rnOut = DONE

\* C2: RunWith returns success exactly at the first step whose summary
\* resolves to <DONE> through the current skill's routes: at success the
\* number of executor calls is the step number, within the cap; a step that
\* resolves to <DONE> ends the run at once; a run that goes on has not
\* resolved <DONE>; and no executor call follows success.
C2_SuccessAtFirstTerminalStep ==
    /\ [](runPc = "done" =>
            /\ callIdx = i + 1
            /\ callIdx <= maxIterations
            /\ result.err = "none"
            /\ FirstTriggeredTarget(cfg.Skills[currentSkill].Next, result.Summary) = DONE)
    /\ []((runPc \in {"loop", "executing"} /\ callIdx > 0 /\ i > 0) => nextSkill # DONE)
    /\ [][(runPc = "executing" /\ result'.err = "none" /\
           FirstTriggeredTarget(cfg.Skills[currentSkill].Next, result'.Summary) = DONE)
            => (runPc' = "done" /\ callIdx' = callIdx)]_vars
    /\ [][runPc = "done" => (runPc' = "done" /\ callIdx' = callIdx)]_vars

\* C2 witness: the loop came back to the first skill and succeeded at the
\* third step, after three executor calls.
C2_Witness ==
    /\ runPc = "done"
    /\ callIdx = 3
    /\ currentSkill = "A"
    /\ DOMAIN cfg.Skills = SkillNames
    /\ Len(cfg.Skills["A"].Next) = 2

\* C3: when the cap N is reached without a terminal route and without an
\* executor error, RunWith has made exactly N executor calls, never N+1, and
\* returns the iteration-cap error, which is neither success nor a step error.
C3_CapReachedAfterExactlyNCalls ==
    /\ [](callIdx <= maxIterations \/ runPc \in {"start", "off"})
    /\ [](runPc = "loop" => callIdx = i)
    /\ [](runPc = "err_max_iterations" =>
            (callIdx = maxIterations /\ result.err = "none" /\ nextSkill # DONE))
    /\ [][(runPc = "loop" /\ i >= maxIterations)
            => (runPc' = "err_max_iterations" /\ callIdx' = callIdx)]_vars
    /\ [][runPc = "err_max_iterations"
            => (runPc' = "err_max_iterations" /\ callIdx' = callIdx)]_vars

\* C3 witness: a two-skill mutual loop without terminal route and a cap of 3
\* ends in the iteration-cap error after exactly 3 executor calls.
C3_Witness ==
    /\ runPc = "err_max_iterations"
    /\ maxIterations = 3
    /\ callIdx = 3
    /\ DOMAIN cfg.Skills = SkillNames
    /\ cfg.Skills["A"].Next = <<[When |-> <<>>, Skill |-> "B"]>>
    /\ cfg.Skills["B"].Next = <<[When |-> <<>>, Skill |-> "A"]>>

\* C4: an executor error at any step ends RunWith with an error at once: no
\* route is resolved for that step, no further executor call is made and the
\* run never reports success.
C4_ExecutorErrorIsFatal ==
    /\ [][(runPc = "executing" /\ result'.err # "none")
            => (runPc' = "err_exec" /\ nextSkill' = nextSkill /\ callIdx' = callIdx
                /\ currentSkill' = currentSkill /\ i' = i)]_vars
    /\ [](runPc = "err_exec" => result.err # "none")
    /\ [](runPc = "done" => result.err = "none")
    /\ [][runPc = "err_exec" => (runPc' = "err_exec" /\ callIdx' = callIdx)]_vars

\* C4 witness: the executor failed at the second step, after a first step
\* that was routed on.
C4_Witness ==
    /\ runPc = "err_exec"
    /\ callIdx = 2
    /\ i = 1
    /\ result.err = "exec"

\* every attempt of ExecuteSkill but the last ended in an idle timeout
EarlierAttemptsIdledOut ==
    \A k \in 1..(Len(outcomes) - 1) : outcomes[k] = "idle_timeout"

AllAttemptsIdledOut ==
    \A k \in 1..Len(outcomes) : outcomes[k] = "idle_timeout"

\* C5: with max-restarts R >= 0 ExecuteSkill makes at most R+1 attempts, all
\* of the one command built before the loop; success after k idle attempts is
\* returned with exactly k restarts; R+1 idle attempts in a row end in the
\* idle-timeout error, so with R = 0 one idle attempt does.
C5_AtMostRPlusOneAttempts ==
    exPc \in {"attempt", "select", "returned"} =>
        /\ exArgs.opts.MaxRestarts >= 0 => opts.MaxRestarts = exArgs.opts.MaxRestarts
        /\ Len(outcomes) <= opts.MaxRestarts + 1
        /\ Len(procs) <= opts.MaxRestarts + 1
        /\ \A k \in 1..Len(procs) :
              procs[k].binary = exCmd.binary /\ procs[k].args = exCmd.args
        /\ EarlierAttemptsIdledOut
        /\ exPc \in {"attempt", "select"} =>
              (attempt = Len(outcomes) /\ AllAttemptsIdledOut
               /\ attempt <= opts.MaxRestarts)
        /\ (exPc = "returned" /\ exRet.kind = "result") =>
              (attempt = Len(outcomes) - 1 /\ outcomes[Len(outcomes)] = "result")
        /\ (exPc = "returned" /\ exRet.kind = "idle_timeout") =>
              (Len(outcomes) = opts.MaxRestarts + 1 /\ AllAttemptsIdledOut
               /\ attempt = opts.MaxRestarts)
        /\ (Len(outcomes) = opts.MaxRestarts + 1 /\ AllAttemptsIdledOut) =>
              (exPc = "returned" /\ exRet.kind = "idle_timeout")

\* C5 witness: the first attempt idled out, the second succeeded, and the
\* result is returned after exactly one restart with a budget of two.
C5_Witness ==
    /\ exPc = "returned"
    /\ exRet.kind = "result"
    /\ exArgs.opts.MaxRestarts = 2
    /\ attempt = 1
    /\ outcomes = <<"idle_timeout", "result">>
    /\ Len(procs) = 2

\* C6: only an idle timeout starts another attempt.  An unrecognised runtime
\* returns its error with no process launched; a launch failure, a non-zero
\* exit or an empty output of an attempt is what ExecuteSkill returns, with
\* no attempt after it, whatever is left of the restart budget.
C6_OnlyIdleTimeoutIsRetried ==
    /\ (exPc = "returned" /\ exRet.kind = "unsupported_agent") =>
          (procs = <<>> /\ outcomes = <<>> /\ exCmd.err = "unsupported")
    /\ (exPc = "returned" /\ exRet.kind # "unsupported_agent") =>
          (outcomes # <<>> /\ exRet.kind = outcomes[Len(outcomes)])
    /\ \A k \in 1..Len(outcomes) :
          outcomes[k] \in {"start_failed", "command_failed", "no_output"} =>
              (k = Len(outcomes) /\ exPc = "returned" /\ exRet.kind = outcomes[k]
               /\ Len(procs) <= k)

\* C6 witness: after one restart the child exits non-zero; the error is
\* returned although one restart is left.
C6_Witness ==
    /\ exPc = "returned"
    /\ exRet.kind = "command_failed"
    /\ outcomes = <<"idle_timeout", "command_failed">>
    /\ attempt = 1
    /\ opts.MaxRestarts = 2

(***************************************************************************)
(* The session registry.                                                   *)
(***************************************************************************)
TerminalStatuses == {StatusDone, StatusFailed, StatusStopped}
HoldsExitCode(c) == exitFile = Itoa(c) \o <<"\n">>
NoExitCode == exitFile \in {NoFile, <<>>}
ReconcileReturns == Reconcile("observer") /\ last'.err = "nil"

\* C7 (as amended): when Reconcile returns without error, an exit-code file
\* holding 0 gives Done with no message; one holding a non-zero code gives
\* Failed with that code in the message; with no exit code a live tmux session
\* gives Running; with no exit code and no live session a Pending, Running or
\* Idle record becomes Failed, with the 'disappeared' message unless a message
\* is already recorded, and a Done, Failed or Stopped record keeps its status
\* and message.
C7_ReconcileClassifies ==
    [][ReconcileReturns =>
        LET m == mem["observer"]
            m2 == mem'["observer"]
        IN /\ HoldsExitCode(0) => m2.Status = StatusDone /\ m2.LastError = NoError
           /\ \A c \in ExitCodes \ {0} :
                HoldsExitCode(c) =>
                    m2.Status = StatusFailed /\ m2.LastError = ExitedWith(c)
           /\ NoExitCode /\ tmuxAlive => m2.Status = StatusRunning
           /\ NoExitCode /\ ~tmuxAlive /\ m.Status \notin TerminalStatuses =>
                /\ m2.Status = StatusFailed
                /\ m2.LastError = IF m.LastError = NoError THEN Disappeared
                                  ELSE m.LastError
           /\ NoExitCode /\ ~tmuxAlive /\ m.Status \in TerminalStatuses =>
                m2.Status = m.Status /\ m2.LastError = m.LastError]_vars

\* C7 witness: Reconcile has returned without error on a Stopped record with
\* no exit-code file and no tmux session, and the record is still Stopped.
C7_Witness ==
    /\ last.op = "Reconcile" /\ last.err = "nil" /\ quiet = "same"
    /\ exitFile = NoFile /\ ~tmuxAlive
    /\ mem["observer"].Status = StatusStopped

\* C7 as stated: with no exit code and no live session every record becomes
\* Failed with the 'disappeared' message.
C7_AsStated ==
    [][ReconcileReturns =>
        LET m2 == mem'["observer"]
        IN /\ HoldsExitCode(0) => m2.Status = StatusDone
           /\ \A c \in ExitCodes \ {0} :
                HoldsExitCode(c) =>
                    m2.Status = StatusFailed /\ m2.LastError = ExitedWith(c)
           /\ NoExitCode /\ tmuxAlive => m2.Status = StatusRunning
           /\ NoExitCode /\ ~tmuxAlive =>
                m2.Status = StatusFailed /\ m2.LastError = Disappeared]_vars

C9_TerminalNeverRunning ==
    [][Reconcile("observer") /\ mem["observer"].Status \in TerminalStatuses =>
        mem'["observer"].Status # StatusRunning]_vars

LifecycleEdges ==
    {<<StatusPending, StatusRunning>>, <<StatusRunning, StatusDone>>,
     <<StatusRunning, StatusFailed>>, <<StatusRunning, StatusStopped>>}

\* C10 as stated: every change of the status in session.json follows Pending
\* to Running, Running to Done, Running to Failed or Running to Stopped.
C10_LifecycleEdges ==
    [][disk # NoMeta /\ disk' # NoMeta /\ disk'.Status # disk.Status =>
        <<disk.Status, disk'.Status>> \in LifecycleEdges]_vars

\* the other copies of the session's metadata: the runner's and the one on disk
OtherCopies == {mem["runner"], disk} \ {NoMeta}
\* metadata m with the status and last error that copy c records
WithRecorded(m, c) == [m EXCEPT !.Status = c.Status, !.LastError = c.LastError]
\* the status Reconcile gives metadata m where the observer's Reconcile runs
ReconciledStatus(m) ==
    ReconcileOutcome(m, exitFile, logMod, tmuxInstalled, tmuxAlive, tmuxFails,
                     now).meta.Status

\* C11 (as amended): a copy that differs from the reconciled one only in its
\* recorded status and last error is reconciled to the same status when an
\* exit code is present or the tmux session is alive; with neither, a Pending,
\* Running or Idle copy becomes Failed and a Done, Failed or Stopped copy keeps
\* the status it records.
C11_StatusFromExitCodeAndLiveness ==
    [][ReconcileReturns =>
        \A c \in OtherCopies :
            LET other == ReconciledStatus(WithRecorded(mem["observer"], c))
            IN /\ ~NoExitCode \/ tmuxAlive => other = mem'["observer"].Status
               /\ NoExitCode /\ ~tmuxAlive /\ c.Status \notin TerminalStatuses =>
                    other = StatusFailed
               /\ NoExitCode /\ ~tmuxAlive /\ c.Status \in TerminalStatuses =>
                    other = c.Status]_vars

\* C11 witness: Reconcile has left a Stopped copy Stopped, with no exit code
\* and no tmux session, where the runner's Pending copy becomes Failed.
C11_Witness ==
    /\ last.op = "Reconcile" /\ last.err = "nil" /\ quiet = "same"
    /\ NoExitCode /\ ~tmuxAlive
    /\ mem["observer"].Status = StatusStopped
    /\ mem["runner"] # NoMeta
    /\ mem["runner"].Status = StatusPending
    /\ ReconciledStatus(WithRecorded(mem["observer"], mem["runner"])) = StatusFailed

\* C11 as stated: copies that differ only in recorded status and last error
\* are reconciled to the same status.
C11_AsStated ==
    [][ReconcileReturns =>
        \A c \in OtherCopies :
            ReconciledStatus(WithRecorded(mem["observer"], c))
                = mem'["observer"].Status]_vars

C13_StopStopsAndPersists ==
    [][Stop("observer") =>
        /\ last'.err = "nil" =>
            /\ ~tmuxAlive'
            /\ mem'["observer"].Status = StatusStopped
            /\ mem'["observer"].LastError = NoError
            /\ mem'["observer"].EndedAt # NoTime
            /\ disk' = mem'["observer"]
        /\ killTMuxSession(tmuxInstalled, tmuxAlive, tmuxFails).err # "nil" =>
            /\ last'.err = "stop_tmux"
            /\ mem' = mem
            /\ disk' = disk]_vars

\* C13 witness: Stop has killed a live tmux session and returned without
\* error.
C13_Witness ==
    /\ last.op = "Stop" /\ last.err = "nil" /\ last.kills = 1
    /\ mem["observer"].Status = StatusStopped
    /\ ~tmuxAlive

\* C14 as stated: after Start returns without error the status is Running, the
\* end time is unset, session.json holds the record, the exit-code file of an
\* earlier launch is gone, a tmux session that was there has been killed and
\* one session of that name exists; without tmux on PATH Start returns an
\* error, launches nothing and changes nothing.
C14_StartLaunchesOneSession ==
    [][Start("runner") =>
        /\ last'.err = "nil" =>
            /\ mem'["runner"].Status = StatusRunning
            /\ mem'["runner"].EndedAt = NoTime
            /\ disk' = mem'["runner"]
            /\ exitFile' = NoFile
            /\ tmuxAlive => last'.kills = 1
            /\ tmuxAlive'
        /\ ~tmuxInstalled =>
            /\ last'.err = "tmux_required"
            /\ last'.kills = 0
            /\ UNCHANGED <<mem, disk, exitFile, tmuxAlive, script>>]_vars

\* C15: New with a command returns, when it returns without error, Pending
\* metadata that session.json holds with the same id and status; New with an
\* empty command returns an error and creates neither the session directory
\* (with run.sh in it) nor session.json.
C15_NewPersistsPending ==
    [][\A command \in Commands :
        New("runner", command) =>
            /\ command # <<>> /\ last'.err = "nil" =>
                /\ mem'["runner"].Status = StatusPending
                /\ disk' # NoMeta
                /\ disk'.ID = mem'["runner"].ID
                /\ disk'.Status = mem'["runner"].Status
            /\ command = <<>> =>
                /\ last'.err = "command_required"
                /\ ~dirExists'
                /\ disk' = NoMeta
                /\ mem'["runner"] = NoMeta]_vars

\* C15 witness: New has returned Pending metadata and session.json holds it.
C15_Witness ==
    /\ last.op = "New" /\ last.err = "nil"
    /\ mem["runner"] # NoMeta
    /\ mem["runner"].Status = StatusPending
    /\ disk = mem["runner"]

C17_OneSessionOneLoop ==
    /\ Len(invs) <= 2
    /\ \A k \in 1..Len(invs) :
        LET v == invs[k]
        IN /\ k > 1 => v.marker
           /\ v.marker => v.created = 0 /\ v.started = 0 /\ v.loops <= 1
           /\ ~v.marker => v.loops = 0 /\ v.created <= 1 /\ v.started <= 1
           /\ (~v.marker /\ v.pc = "done") => v.created = 1 /\ v.started = 1
           /\ (v.marker /\ v.pc = "done") => v.loops = 1

C17_Witness ==
    /\ Len(invs) = 2
    /\ ~invs[1].marker /\ invs[1].pc = "done" /\ invs[1].started = 1
    /\ invs[2].pc = "done" /\ invs[2].loops = 1


\* C18: the steps run strictly one after another in the order the routing
\* resolves: an executor call starts only when no call is in flight, so call
\* k+1 starts only after call k returned; at most one call is ever in flight;
\* the first call is for the entrypoint and call k+1 is for the target that
\* the routes of step k's skill resolve from step k's summary.
C18_StepsInRoutedOrder ==
    /\ [][callIdx' # callIdx =>
            (callIdx' = callIdx + 1 /\ runPc = "loop" /\ runPc' = "executing")]_vars
    /\ [](runPc = "executing" => callIdx = i + 1)
    /\ [](runPc = "loop" => callIdx = i)
    /\ [][RunCall =>
            (runPc' = "executing" =>
                callArgs'.name =
                    IF callIdx = 0 THEN entrypoint
                    ELSE FirstTriggeredTarget(cfg.Skills[callArgs.name].Next,
                                              result.Summary))]_vars

\* C18 witness: the third call is in flight, for skill A, after a call for A
\* was routed to B and the call for B was routed back to A.
C18_Witness ==
    /\ runPc = "executing"
    /\ callIdx = 3
    /\ callArgs.name = "A"
    /\ DOMAIN cfg.Skills = SkillNames
    /\ \E k \in 1..Len(cfg.Skills["B"].Next) : cfg.Skills["B"].Next[k].Skill = "A"
    /\ Len(cfg.Skills["A"].Next) = 1
    /\ cfg.Skills["A"].Next[1].Skill = "B"

\* C19: the previous summary handed to the executor at the first step is the
\* seed prompt, empty or not, and at step k+1 exactly the summary that step k
\* returned.
C19_PrevSummaryIsLastSummary ==
    [][RunCall =>
        (runPc' = "executing" =>
            callArgs'.prevSummary =
                IF callIdx = 0 THEN prompt ELSE result.Summary)]_vars

\* C19 witness: the second call is in flight with the summary of the first,
\* which differs from the seed prompt.
C19_Witness ==
    /\ runPc = "executing"
    /\ callIdx = 2
    /\ callArgs.prevSummary = result.Summary
    /\ result.Summary = <<"x", "k">>
    /\ prompt = <<"x">>

\* C20: the executor is never called for a skill that is not in the graph;
\* when a step's route resolves to a target that is neither <DONE> nor a
\* skill of the graph, RunWith returns an error right after that step, and no
\* executor call follows.
C20_UnknownTargetIsFatal ==
    /\ [](callIdx > 0 => callArgs.name \in DOMAIN cfg.Skills)
    /\ [][(runPc = "executing" /\ result'.err = "none" /\
           FirstTriggeredTarget(cfg.Skills[currentSkill].Next, result'.Summary)
               \notin DOMAIN cfg.Skills \cup {DONE})
            => (runPc' = "err_next_not_found" /\ callIdx' = callIdx)]_vars
    /\ [](runPc = "err_next_not_found" =>
            (nextSkill \notin DOMAIN cfg.Skills \cup {DONE} /\ result.err = "none"))
    /\ [][runPc = "err_next_not_found" =>
            (runPc' = "err_next_not_found" /\ callIdx' = callIdx)]_vars

\* C20 witness: the second step of a one-skill graph resolved skill B, which
\* the graph does not have, and the run ended there after two calls.
C20_Witness ==
    /\ runPc = "err_next_not_found"
    /\ DOMAIN cfg.Skills = {"A"}
    /\ nextSkill = "B"
    /\ callIdx = 2


\* C21: on an idle breach the child is killed and has exited before the
\* idle-timeout error is produced, and an attempt is launched only when no
\* child of the call runs: at every moment at most one child process of an
\* ExecuteSkill call is alive.
C21_AtMostOneChildAlive ==
    /\ [](Cardinality({k \in 1..Len(procs) : procs[k].state = "running"}) <= 1)
    /\ [][ExLaunch => ~Running]_vars
    /\ [][((SelectTick \/ DrainDone) /\ Len(outcomes') > Len(outcomes)) =>
            (outcomes'[Len(outcomes')] = "idle_timeout" /\ ~Running')]_vars
    /\ [](exPc = "draining" => ~Running)

\* C21 witness: the first child was killed for idleness and the child of the
\* restarted attempt runs.
C21_Witness ==
    /\ Len(procs) = 2
    /\ procs[1].state = "exited" /\ procs[1].code = -1
    /\ procs[2].state = "running"
    /\ outcomes = <<"idle_timeout">>


\* C22: a write on the child's stdout or on its stderr resets the one
\* last-activity time (as the launch does), only the passing of time makes
\* the idle time grow, and the supervisor ends an attempt for idleness only at
\* a check where the idle time strictly exceeds the idle timeout; at a check
\* where it does not, nothing is killed, so a child that writes on some
\* stream within every window is never killed.
C22_KilledOnlyWhenIdleTooLong ==
    /\ [][(ChildWriteStdout \/ ChildWriteStderr \/ ExLaunch) => idleFor' = 0]_vars
    /\ [][idleFor' > idleFor => (ClockTick /\ idleFor' = idleFor + 1)]_vars
    /\ [][(SelectTick /\ idleFor <= opts.IdleTimeout) =>
            (procs' = procs /\ outcomes' = outcomes /\ exPc' = exPc)]_vars
    /\ [][(Len(outcomes') > Len(outcomes) /\ outcomes'[Len(outcomes')] = "idle_timeout")
            => ((SelectTick \/ DrainDone) /\ idleFor > opts.IdleTimeout)]_vars
    /\ [][(Running /\ ~Running' /\ procs'[Len(procs')].code = -1) =>
            (SelectTick /\ idleFor > opts.IdleTimeout)]_vars

\* C22 witness: a child that wrote on its standard output and then stayed
\* silent for one second more than the idle timeout was killed at the check.
C22_Witness ==
    /\ outcomes = <<"idle_timeout">>
    /\ stdoutBuf # <<>>
    /\ idleFor = opts.IdleTimeout + 1
    /\ procs[1].code = -1


\* t is s without its surrounding white space: s is white space, then t, then
\* white space, and t neither begins nor ends with white space
IsTrimOf(t, s) ==
    /\ t # <<>>
    /\ ~IsSpace(t[1]) /\ ~IsSpace(t[Len(t)])
    /\ \E a \in 0..Len(s), b \in 0..Len(s) :
        /\ a + b <= Len(s)
        /\ t = SubSeq(s, a + 1, Len(s) - b)
        /\ \A k \in 1..a : IsSpace(s[k])
        /\ \A k \in (Len(s) - b + 1)..Len(s) : IsSpace(s[k])

AllSpace(s) == \A k \in 1..Len(s) : IsSpace(s[k])

C24_EffectiveCap ==
    /\ [][RunStart =>
            maxIterations' =
                IF maxIterations > 0 THEN maxIterations
                ELSE IF cfg.MaxIterations > 0 THEN cfg.MaxIterations
                ELSE 100]_vars
    /\ [][~RunStart => maxIterations' = maxIterations]_vars
    /\ [](runPc \notin {"start", "off"} => (maxIterations > 0 /\ callIdx <= maxIterations))
    /\ [](runPc = "err_max_iterations" => callIdx = maxIterations)

\* C24 witness: a run with no override and no configured cap ran three steps
\* under the cap of 100 and finished successfully.
C24_Witness ==
    /\ runPc = "done"
    /\ cfg.MaxIterations = 0
    /\ maxIterations = 100
    /\ callIdx = 3


\* C25: the skill RunWith starts from is the entrypoint override when one is
\* given, else the graph's default entrypoint, and the first executor call is
\* for that skill; when it is not a skill of the graph, RunWith returns an
\* error and no executor call is ever made.
C25_EntrypointChosenAndValidated ==
    /\ [][RunStart =>
            LET chosen == IF entrypoint # "" THEN entrypoint ELSE cfg.DefaultEntrypoint
            IN IF chosen \in DOMAIN cfg.Skills
               THEN runPc' = "loop" /\ currentSkill' = chosen /\ entrypoint' = chosen
               ELSE runPc' = "err_entrypoint"]_vars
    /\ [][(RunCall /\ callIdx = 0) =>
            (runPc' = "executing" /\ callArgs'.name = entrypoint)]_vars
    /\ [](runPc = "err_entrypoint" => (callIdx = 0 /\ callArgs = NoArgs))
    /\ [][runPc = "err_entrypoint" => runPc' = "err_entrypoint"]_vars

\* C25 witness: the first executor call is in flight for the override B in a
\* graph whose default entrypoint is A.
C25_Witness ==
    /\ runPc = "executing"
    /\ callIdx = 1
    /\ callArgs.name = "B"
    /\ cfg.DefaultEntrypoint = "A"


\* C26: the read path (List, then Reconcile) reports a session whose metadata
\* is missing, or whose tmux session vanished before an exit code was
\* written, with status Failed and a message, and Reconcile returns no error
\* for it.
C26_BrokenSessionsReportedFailed ==
    /\ [][(Load("observer") /\ disk = NoMeta) =>
            (/\ mem'["observer"] # NoMeta
             /\ mem'["observer"].Status = StatusFailed
             /\ mem'["observer"].LastError # NoError)]_vars
    /\ [][(Reconcile("observer") /\ NoExitCode /\ ~tmuxAlive) =>
            (/\ last'.err = "nil"
             /\ mem'["observer"].Status = StatusFailed
             /\ mem'["observer"].LastError # NoError)]_vars


\* C27: any two sessions created by New have distinct ids, hence distinct
\* session directories and tmux session names, also when they are created
\* within the same second; and New never writes into the directory of an
\* existing session.
C27_SessionsNeverShareNames ==
    /\ [](\A a, b \in 1..Len(newIds) :
            a # b => /\ newIds[a] # newIds[b]
                     /\ SessionDirOf(newIds[a]) # SessionDirOf(newIds[b])
                     /\ TmuxSessionOf(newIds[a]) # TmuxSessionOf(newIds[b]))
    /\ [][\A id \in AllIDs :
            sessionDirs[id] # NoDir => sessionDirs'[id] = sessionDirs[id]]_vars


\* C28: prune never deletes a session whose status after reconciliation is
\* Running, and without --all it deletes only sessions whose status is Done,
\* Failed or Stopped: a Pending or Idle session is deleted only with --all.
C28_PruneKeepsRunning ==
    [][\A all \in BOOLEAN :
        PruneDelete("observer", all) =>
            /\ mem["observer"].Status # StatusRunning
            /\ ~all => mem["observer"].Status \in {StatusDone, StatusFailed, StatusStopped}
            /\ mem["observer"].Status \in {StatusPending, StatusIdle} => all]_vars

\* C28 witness: prune deleted the directory of a session it holds as Pending.
C28_Witness ==
    /\ last.op = "DeleteByID"
    /\ last.err = "nil"
    /\ mem["observer"] # NoMeta
    /\ mem["observer"].Status = StatusPending
    /\ ~dirExists


C30_CallsAndRunsEnd ==
    /\ (exPc = "select" /\ Running /\ idleFor > opts.IdleTimeout)
           ~> (~Running \/ idleFor = 0)
    /\ \/ []<><<ChildWriteStdout \/ ChildWriteStderr>>_vars
       \/ <>(exPc \in {"returned", "off"})
    /\ [](exPc \notin {"start", "off"} => Len(outcomes) <= opts.MaxRestarts + 1)
    /\ <>(RunReturned \/ runPc = "off")
    /\ [](runPc \notin {"start", "off"} => callIdx <= maxIterations)

\* C31 as stated: while the command of the current launch is running, or has
\* ended without its exit code written yet, the exit-code file holds no value
\* (none of this launch, none left by an earlier launch), so Reconcile cannot
\* report Done or an exit-code Failed for it.
C31_ExitCodeOnlyAfterCommandEnds ==
    script.pc \in {"running", "writing"} => ~ReadExitCode(exitFile).has

\* C32: New, Start, Stop and Reconcile never assign the status Idle: neither a
\* process's metadata nor session.json ever records Idle.
C32_IdleNeverAssigned ==
    /\ \A p \in Procs : mem[p] # NoMeta => mem[p].Status # StatusIdle
    /\ disk # NoMeta => disk.Status # StatusIdle

\* C32 witness: the session was created and started, and Reconcile has changed
\* the status of another process's copy (to Running: the tmux session is alive)
\* and saved it.
C32_Witness ==
    /\ last.op = "Reconcile" /\ last.err = "nil"
    /\ mem["runner"] # NoMeta /\ mem["runner"].Status = StatusRunning
    /\ mem["observer"] # NoMeta /\ mem["observer"].Status = StatusRunning
    /\ mem["observer"].EndedAt = NoTime
    /\ disk = mem["observer"]
    /\ tmuxAlive

\* an attempt ends in this step, with the outcome kind
AttemptEndsWith(kind) ==
    /\ Len(outcomes') = Len(outcomes) + 1
    /\ outcomes'[Len(outcomes')] = kind

\* C33 as stated: an attempt ends in the idle-timeout error only when the
\* supervisor killed a child that was still running; an attempt whose child
\* has exited with status 0 and non-empty output, its exit waiting on done,
\* ends with the result even when a breaching idle check is ready too.
C33_ExitedChildYieldsResult ==
    [][/\ AttemptEndsWith("idle_timeout") => procs'[Len(procs')].code = -1
       /\ (/\ exPc = "select" /\ doneCh = "nil" /\ TrimSpace(stdoutBuf) # <<>>
           /\ Len(outcomes') = Len(outcomes) + 1) =>
            /\ AttemptEndsWith("result")
            /\ exPc' = "returned"]_vars

\* C34 as stated: between New and Start, a Reconcile by another process leaves
\* the session Pending, in its copy and in session.json, and the session
\* directory is not deleted.
C34_PendingSurvivesUntilStart ==
    [][runnerPc = "start" =>
        /\ Reconcile("observer") =>
            /\ mem'["observer"].Status = StatusPending
            /\ disk' # NoMeta /\ disk'.Status = StatusPending
        /\ DeleteByID("observer") => dirExists']_vars

\* C35 as stated: a Reconcile of a session that Stop has stopped (the record
\* says Stopped, and so does session.json) leaves the status Stopped, in the
\* record and in session.json, whatever the exit-code file holds.
C35_StoppedStaysStopped ==
    [][(/\ Reconcile("observer")
        /\ mem["observer"].Status = StatusStopped
        /\ disk # NoMeta /\ disk.Status = StatusStopped) =>
        /\ mem'["observer"].Status = StatusStopped
        /\ disk'.Status = StatusStopped]_vars

\* C36 as stated: when Start returns an error, the status of its metadata and
\* session.json are as before the call, neither says Running, and no tmux
\* session of the session's name is alive.
C36_FailedStartChangesNothing ==
    [][Start("runner") /\ last'.err # "nil" =>
        /\ mem'["runner"].Status = mem["runner"].Status
        /\ mem'["runner"].Status # StatusRunning
        /\ disk' = disk
        /\ disk' # NoMeta => disk'.Status # StatusRunning
        /\ ~tmuxAlive']_vars

\* the copies of the session's metadata: each process's and session.json
Copies == ({mem[p] : p \in Procs} \cup {disk}) \ {NoMeta}

\* C37: in every copy of the metadata, in memory and in session.json, the end
\* time is set exactly when the status is Done, Failed or Stopped; with
\* Pending or Running it is unset.
C37_EndTimeIffTerminal ==
    \A m \in Copies : (m.Status \in TerminalStatuses) <=> (m.EndedAt # NoTime)

\* C37 witness: Reconcile has classified a finished run as Done and stamped its
\* end time, while the copy of the process that started it still says Running
\* with no end time.
C37_Witness ==
    /\ last.op = "Reconcile" /\ last.err = "nil"
    /\ mem["observer"] # NoMeta /\ mem["observer"].Status = StatusDone
    /\ mem["observer"].EndedAt = now /\ now > 0
    /\ disk = mem["observer"]
    /\ mem["runner"] # NoMeta /\ mem["runner"].Status = StatusRunning
    /\ mem["runner"].EndedAt = NoTime

\* C38 as stated: in every copy of the metadata the last error is empty unless
\* the status is Failed; and when Reconcile returns having set Failed, the
\* last error is the message of what it just observed: the exit code in the
\* exit-code file, or else the vanished tmux session.
C38_LastErrorOnlyWhenFailed ==
    /\ [](\A m \in Copies : m.Status # StatusFailed => m.LastError = NoError)
    /\ [][(ReconcileReturns /\ mem'["observer"].Status = StatusFailed
              /\ mem["observer"].Status # StatusFailed) =>
            mem'["observer"].LastError =
                IF ReadExitCode(exitFile).has
                THEN ExitedWith(ReadExitCode(exitFile).code)
                ELSE Disappeared]_vars

\* C39: when ExecuteSkill has returned, with a result or with any error, none
\* of the children it launched is running: each has exited by itself or was
\* killed, and cmd.Wait has returned for it.
C39_NoChildOutlivesTheCall ==
    exPc = "returned" =>
        \A k \in 1..Len(procs) : procs[k].state = "exited" /\ ~procs[k].heirs

\* C39 witness: ExecuteSkill has returned a result after two attempts, the
\* child of the first killed on an idle timeout, the child of the second
\* having exited with status 0.
C39_Witness ==
    /\ exPc = "returned"
    /\ exRet.kind = "result"
    /\ Len(procs) = 2
    /\ procs[1].state = "exited" /\ procs[1].code = -1
    /\ procs[2].state = "exited" /\ procs[2].code = 0
    /\ outcomes = <<"idle_timeout", "result">>

\* startDetachedRun has returned the error of a failed Start, its removal of
\* the session directory having succeeded
ReturnedStartError ==
    runnerPc = "exited" /\ last.op = "Start" /\ last.err # "nil"

\* C40 (as amended): every failed Start is followed by the removal of the
\* session directory; when startDetachedRun has returned Start's error neither
\* the directory nor session.json is left, and neither comes back once the
\* process has ended; when the removal itself fails, startDetachedRun returns
\* an error that says so and the directory is as Start left it.
C40_FailedLaunchLeavesNoRecord ==
    /\ [](ReturnedStartError => ~dirExists /\ disk = NoMeta)
    /\ [][/\ Start("runner") /\ last'.err # "nil" => runnerPc' = "cleanup"
          /\ runnerPc = "exited" /\ ~dirExists => ~dirExists' /\ disk' = NoMeta
          /\ RemoveSessionDir /\ runnerPc' = "cleanup_failed" =>
                ~diskOk /\ UNCHANGED <<dirExists, disk>>]_vars

\* C40 witness: Start failed to persist the started session, the directory
\* was removed, and another process that had loaded the record then called
\* Reconcile, which could not bring session.json back.
C40_Witness ==
    /\ runnerPc = "exited"
    /\ ~dirExists /\ disk = NoMeta
    /\ mem["runner"] # NoMeta /\ mem["runner"].Status = StatusRunning
    /\ mem["observer"] # NoMeta
    /\ last.op = "Reconcile" /\ last.err = "save"

\* C40 as stated: whenever startDetachedRun has returned an error after a
\* failed Start, the session directory and session.json are gone.
C40_AsStated ==
    [](runnerPc \in {"exited", "cleanup_failed"} /\ last.op = "Start"
           /\ last.err # "nil" => ~dirExists /\ disk = NoMeta)

=============================================================================
